---- MODULE Spec2Model ----
(***************************************************************************)
(* The personal information manager of src/main.py (NoteDatabaseSystem,    *)
(* the facade with its in-memory session registry) on top of               *)
(* src/database.py (NoteDatabase, the SQLite access layer).                *)
(*                                                                         *)
(* Strings are sequences of one-character strings, so that str.strip(),    *)
(* len() and LIKE are computed and not assumed.  SQL NULL / Python None    *)
(* in an integer column is 0 (AUTOINCREMENT ids start at 1).  A table is   *)
(* the set of its rows; sqlite_sequence holds, per AUTOINCREMENT table,    *)
(* the largest rowid ever handed out.  src/database.py opens every         *)
(* connection with sqlite3.connect() alone and never issues                *)
(* PRAGMA foreign_keys = ON, so SQLite does not enforce the FOREIGN KEY    *)
(* clauses of the schema, ON DELETE CASCADE included.                      *)
(* The columns description, due_date and reminder_date, and created_at of  *)
(* every table but notes, are written and read back but decide no branch;  *)
(* they are not carried in the rows below.  CURRENT_TIMESTAMP is the       *)
(* clock now, which only the specifications about timestamps advance.      *)
(* Callers that run concurrently (threads of one process, or processes on  *)
(* one notes.db) are modelled one statement at a time: calls holds each    *)
(* such call's position and locals.  The actions named after the facade    *)
(* methods run a whole call in one step.                                   *)
(***************************************************************************)
EXTENDS Integers, Sequences, FiniteSets, TLC

VARIABLES
    users,            \* table users: rows [id, username, password_hash]
    notes,            \* table notes: rows [id, user_id, title, content, created_at,
                      \* modified_at]
    tags,             \* table tags: rows [id, name]
    note_tags,        \* table note_tags: rows <<note_id, tag_id>>
    todos,            \* table todos: rows [id, user_id, title, priority, completed, note_id]
    todo_tags,        \* table todo_tags: rows <<todo_id, tag_id>>
    folders,          \* table folders: rows [id, user_id, name, parent_id]
    note_folders,     \* table note_folders: rows <<note_id, folder_id>>
    sqlite_sequence,  \* AUTOINCREMENT bookkeeping: table name -> last rowid
    active_sessions,  \* NoteDatabaseSystem.active_sessions: session_id -> username
    issued,           \* the values uuid.uuid4() has returned so far
    result,           \* the last facade call and the JSON envelope it returned
    calls,            \* concurrent callers: caller -> the call it is running or has run
    now               \* the clock CURRENT_TIMESTAMP reads

db == <<users, notes, tags, note_tags, todos, todo_tags, folders, note_folders,
        sqlite_sequence>>
vars == <<users, notes, tags, note_tags, todos, todo_tags, folders, note_folders,
          sqlite_sequence, active_sessions, issued, result, calls, now>>

(***************************************************************************)
(* Bounds of the model.                                                    *)
(***************************************************************************)
MaxTokens == 2      \* uuid4 values available to login_user
MaxNotes == 2       \* note rows ever inserted
MaxFolders == 4     \* folder rows ever inserted
MaxTime == 2        \* seconds the clock advances
MaxCallers == 2     \* callers that run one call each, concurrently

NULL == 0
SessionIds == 1..MaxTokens          \* the strings uuid4 can produce
EmptySession == NULL                \* the session_id ""
SessionInputs == {EmptySession} \cup SessionIds

(***************************************************************************)
(* Strings.                                                                *)
(***************************************************************************)
Whitespace == {" "}

\* str.lstrip() / str.rstrip() / str.strip()
RECURSIVE lstrip(_)
lstrip(s) == IF s # <<>> /\ Head(s) \in Whitespace THEN lstrip(Tail(s)) ELSE s

RECURSIVE rstrip(_)
rstrip(s) == IF s # <<>> /\ s[Len(s)] \in Whitespace
             THEN rstrip(SubSeq(s, 1, Len(s) - 1)) ELSE s

strip(s) == rstrip(lstrip(s))

\* SQLite's LIKE folds the case of ASCII letters
lower(c) == CASE c = "A" -> "a" [] c = "B" -> "b" [] OTHER -> c

\* pattern LIKE text, as SQLite evaluates it: % matches any run of
\* characters, _ matches one character, letters match case-insensitively
RECURSIVE like(_, _)
like(text, pattern) ==
    IF pattern = <<>> THEN text = <<>>
    ELSE IF Head(pattern) = "%"
         THEN like(text, Tail(pattern)) \/ (text # <<>> /\ like(Tail(text), pattern))
    ELSE IF text = <<>> THEN FALSE
    ELSE /\ (Head(pattern) = "_" \/ lower(Head(pattern)) = lower(Head(text)))
         /\ like(Tail(text), Tail(pattern))

\* the elements of a Python list, as a set
Range(seq) == {seq[i] : i \in 1..Len(seq)}

(***************************************************************************)
(* bcrypt.  hashpw(password, gensalt()) embeds the salt in the hash;       *)
(* checkpw(password, hash) re-hashes the password with the salt it reads   *)
(* from the hash and compares.  The digest is kept symbolic: it is equal   *)
(* for equal (salt, password) only.                                        *)
(***************************************************************************)
Salts == {"s1"}
_hash_password(password, salt) == [salt |-> salt, digest |-> <<salt, password>>]
_verify_password(password, hash) == _hash_password(password, hash.salt) = hash

(***************************************************************************)
(* The envelope a facade call returns, with the call it answers.           *)
(***************************************************************************)
\* the envelope has no "message" key (no message of the facade is empty)
NoMessage == ""

Envelope(op, session_id, args, success, message, data) ==
    [op |-> op, session_id |-> session_id, args |-> args,
     success |-> success, message |-> message, data |-> data]

\* a call that runs in one step returns; it touches no other caller and
\* the clock does not advance under it
Reply(op, session_id, args, success, message, data) ==
    /\ result' = Envelope(op, session_id, args, success, message, data)
    /\ UNCHANGED <<calls, now>>

Init ==
    /\ users = {}
    /\ notes = {}
    /\ tags = {}
    /\ note_tags = {}
    /\ todos = {}
    /\ todo_tags = {}
    /\ folders = {}
    /\ note_folders = {}
    /\ sqlite_sequence = [users |-> 0, notes |-> 0, tags |-> 0, todos |-> 0, folders |-> 0]
    /\ active_sessions = [t \in {} |-> <<>>]
    /\ issued = {}
    /\ calls = <<>>
    /\ now = 0
    /\ result = [op |-> "__init__", session_id |-> EmptySession, args |-> [x |-> 0],
                 success |-> TRUE, message |-> "", data |-> {}]

(***************************************************************************)
(* NoteDatabase: users.                                                    *)
(***************************************************************************)
\* a users table whose username column is not UNIQUE
create_user_conflict_none(username) == FALSE

\* the INSERT of create_user raises sqlite3.IntegrityError (username UNIQUE)
create_user_conflict(username) == \E u \in users : u.username = username

\* NoteDatabase.create_user: the return value
db_create_user_ret(username) == ~create_user_conflict(username)

\* NoteDatabase.create_user: the effect on the store
db_create_user(username, password, salt) ==
    IF create_user_conflict(username)
    THEN UNCHANGED <<users, sqlite_sequence>>
    ELSE /\ users' = users \cup {[id |-> sqlite_sequence.users + 1,
                                  username |-> username,
                                  password_hash |-> _hash_password(password, salt)]}
         /\ sqlite_sequence' = [sqlite_sequence EXCEPT !.users = @ + 1]

\* a verify_user that only looks the username up
db_verify_user_any(username, password) == \E u \in users : u.username = username

\* NoteDatabase.verify_user
db_verify_user(username, password) ==
    \E u \in users : u.username = username /\ _verify_password(password, u.password_hash)

\* NoteDatabase.get_user_id
db_get_user_id(username) ==
    IF \E u \in users : u.username = username
    THEN (CHOOSE u \in users : u.username = username).id
    ELSE NULL

(***************************************************************************)
(* NoteDatabaseSystem: the session registry.                               *)
(***************************************************************************)
\* a generator that can repeat a value it has returned before
uuid4_repeat == SessionIds

\* uuid.uuid4(): 122 random bits.  A value is modelled as one that no
\* earlier call returned; a collision (probability 2^-122 per pair) is
\* outside the model.
uuid4 == SessionIds \ issued

\* NoteDatabaseSystem._get_username_from_session: dict.get, None is <<>>
_get_username_from_session(session_id) ==
    IF session_id \in DOMAIN active_sessions THEN active_sessions[session_id] ELSE <<>>

\* NoteDatabaseSystem._validate_session: the user id, or None
_validate_session(session_id) ==
    LET username == _get_username_from_session(session_id) IN
    IF username = <<>> THEN NULL ELSE db_get_user_id(username)

\* a rejection that tells a destroyed session from one that never existed
NotLoggedIn_leaky(op, session_id, args) ==
    Reply(op, session_id, args, FALSE,
          IF session_id \in issued THEN "Session expired" ELSE "Not logged in", {})

\* the early return of every authenticated operation
NotLoggedIn(op, session_id, args) ==
    Reply(op, session_id, args, FALSE, "Not logged in", {})

(***************************************************************************)
(* NoteDatabaseSystem: register, login, logout.                            *)
(***************************************************************************)
MinPasswordLen == 3

register_user(username, password) ==
    LET args == [username |-> username, password |-> password]
        R(ok, msg) == Reply("register_user", EmptySession, args, ok, msg, {})
    IN
    /\ UNCHANGED <<notes, tags, note_tags, todos, todo_tags, folders, note_folders,
                   active_sessions, issued>>
    /\ IF username = <<>> \/ strip(username) = <<>>
       THEN R(FALSE, "Username is require and cannot be empty")
            /\ UNCHANGED <<users, sqlite_sequence>>
       ELSE IF password = <<>>
       THEN R(FALSE, "Password is required and cannot be empty")
            /\ UNCHANGED <<users, sqlite_sequence>>
       ELSE IF strip(password) = <<>>
       THEN R(FALSE, "Password cannot be only whitespace")
            /\ UNCHANGED <<users, sqlite_sequence>>
       ELSE IF Len(strip(password)) < MinPasswordLen
       THEN R(FALSE, "Password must be at least 3 characters long")
            /\ UNCHANGED <<users, sqlite_sequence>>
       ELSE /\ \E salt \in Salts : db_create_user(strip(username), strip(password), salt)
            /\ IF db_create_user_ret(strip(username))
               THEN R(TRUE, "User registered successfully")
               ELSE R(FALSE, "User registration failed")

login_user(username, password) ==
    LET args == [username |-> username, password |-> password]
        R(ok, msg, data) == Reply("login_user", EmptySession, args, ok, msg, data)
    IN
    /\ UNCHANGED db
    /\ IF username = <<>> \/ strip(username) = <<>>
       THEN R(FALSE, "Username is required and cannot be empty", {})
            /\ UNCHANGED <<active_sessions, issued>>
       ELSE IF password = <<>>
       THEN R(FALSE, "Password is required and cannot be empty", {})
            /\ UNCHANGED <<active_sessions, issued>>
       ELSE IF strip(password) = <<>>
       THEN R(FALSE, "Password cannot be only whitespace", {})
            /\ UNCHANGED <<active_sessions, issued>>
       ELSE IF db_verify_user(strip(username), strip(password))
       THEN \E session_id \in uuid4 :
                /\ issued' = issued \cup {session_id}
                /\ active_sessions' =
                       [t \in DOMAIN active_sessions \cup {session_id} |->
                            IF t = session_id THEN strip(username) ELSE active_sessions[t]]
                /\ R(TRUE, "Login successful", {[session_id |-> session_id]})
       ELSE R(FALSE, "Invalid username or password", {})
            /\ UNCHANGED <<active_sessions, issued>>

\* a logout that ends every session of the user
logout_user_everywhere(session_id) ==
    LET R(ok, msg) == Reply("logout_user", session_id, [x |-> 0], ok, msg, {}) IN
    /\ UNCHANGED <<db, issued>>
    /\ IF session_id \in DOMAIN active_sessions
       THEN /\ active_sessions' =
                   [t \in {x \in DOMAIN active_sessions :
                               active_sessions[x] # active_sessions[session_id]} |->
                        active_sessions[t]]
            /\ R(TRUE, "Logout successful")
       ELSE /\ UNCHANGED active_sessions
            /\ R(FALSE, "Invalid session")

\* a logout that reports success and leaves the registry entry in place
logout_user_keep(session_id) ==
    LET R(ok, msg) == Reply("logout_user", session_id, [x |-> 0], ok, msg, {}) IN
    /\ UNCHANGED <<db, issued, active_sessions>>
    /\ IF session_id \in DOMAIN active_sessions
       THEN R(TRUE, "Logout successful")
       ELSE R(FALSE, "Invalid session")

logout_user(session_id) ==
    LET R(ok, msg) == Reply("logout_user", session_id, [x |-> 0], ok, msg, {}) IN
    /\ UNCHANGED <<db, issued>>
    /\ IF session_id \in DOMAIN active_sessions
       THEN /\ active_sessions' =
                   [t \in DOMAIN active_sessions \ {session_id} |-> active_sessions[t]]
            /\ R(TRUE, "Logout successful")
       ELSE /\ UNCHANGED active_sessions
            /\ R(FALSE, "Invalid session")

(***************************************************************************)
(* NoteDatabase: notes and note tags.                                      *)
(***************************************************************************)
\* the SELECT without its user_id condition
note_rows_any_user(user_id, title) == {n \in notes : n.title = title}

\* SELECT ... FROM notes WHERE user_id = ? AND title = ?
note_rows(user_id, title) == {n \in notes : n.user_id = user_id /\ n.title = title}

\* SELECT t.name FROM tags t JOIN note_tags nt ON t.id = nt.tag_id WHERE nt.note_id = ?
note_tag_names(note_id) == {t.name : t \in {x \in tags : <<note_id, x.id>> \in note_tags}}

\* a rowid taken without AUTOINCREMENT: one more than the largest id in the table
next_rowid_reused(table) ==
    LET ids == IF table = "notes" THEN {n.id : n \in notes}
               ELSE IF table = "todos" THEN {t.id : t \in todos}
               ELSE {f.id : f \in folders}
    IN IF ids = {} THEN 1 ELSE (CHOOSE m \in ids : \A i \in ids : i <= m) + 1

\* the rowid an INSERT into an AUTOINCREMENT table receives
next_rowid(table) == sqlite_sequence[table] + 1

\* DEFAULT CURRENT_TIMESTAMP / SET modified_at = CURRENT_TIMESTAMP
CURRENT_TIMESTAMP == now

\* a notes table without UNIQUE(user_id, title)
create_note_conflict_none(user_id, title) == FALSE

\* the INSERT of create_note raises sqlite3.IntegrityError: UNIQUE(user_id, title)
create_note_conflict(user_id, title) == note_rows(user_id, title) # {}

\* NoteDatabase.create_note: the return value (note id, or None)
db_create_note_ret(user_id, title) ==
    IF create_note_conflict(user_id, title) THEN NULL ELSE next_rowid("notes")

\* NoteDatabase.create_note: the effect on the store
db_create_note(user_id, title, content) ==
    IF create_note_conflict(user_id, title)
    THEN UNCHANGED <<notes, sqlite_sequence>>
    ELSE /\ notes' = notes \cup {[id |-> next_rowid("notes"), user_id |-> user_id,
                                  title |-> title, content |-> content,
                                  created_at |-> CURRENT_TIMESTAMP,
                                  modified_at |-> CURRENT_TIMESTAMP]}
         /\ sqlite_sequence' = [sqlite_sequence EXCEPT !.notes = @ + 1]

\* NoteDatabase.get_note_by_title: the note dictionary, {} for None
db_get_note_by_title(user_id, title) ==
    {[id |-> n.id, title |-> n.title, content |-> n.content,
      tags |-> note_tag_names(n.id)] : n \in note_rows(user_id, title)}

\* NoteDatabase.get_user_notes (the default limit of 50 exceeds MaxNotes)
db_get_user_notes(user_id) ==
    {[id |-> n.id, title |-> n.title, content |-> n.content,
      tags |-> note_tag_names(n.id)] : n \in {x \in notes : x.user_id = user_id}}

\* NoteDatabase.update_note_content: rowcount > 0
db_update_note_content_ret(user_id, title) == note_rows(user_id, title) # {}

\* the UPDATE without SET modified_at = CURRENT_TIMESTAMP
db_update_note_content_stale(user_id, title, new_content) ==
    notes' = {IF n.user_id = user_id /\ n.title = title
              THEN [n EXCEPT !.content = new_content]
              ELSE n : n \in notes}

\* NoteDatabase.update_note_content: the UPDATE
db_update_note_content(user_id, title, new_content) ==
    notes' = {IF n.user_id = user_id /\ n.title = title
              THEN [n EXCEPT !.content = new_content, !.modified_at = CURRENT_TIMESTAMP]
              ELSE n : n \in notes}

\* update_note_title answering True whatever the SELECT and the rowcount say
db_update_note_title_ret_always(user_id, old_title, new_title) == TRUE

\* NoteDatabase.update_note_title: the return value
db_update_note_title_ret(user_id, old_title, new_title) ==
    IF note_rows(user_id, new_title) # {} THEN FALSE
    ELSE note_rows(user_id, old_title) # {}

\* NoteDatabase.update_note_title: the effect on the store
db_update_note_title(user_id, old_title, new_title) ==
    IF note_rows(user_id, new_title) # {} THEN UNCHANGED notes
    ELSE notes' = {IF n.user_id = user_id /\ n.title = old_title
                   THEN [n EXCEPT !.title = new_title, !.modified_at = CURRENT_TIMESTAMP]
                   ELSE n : n \in notes}

\* NoteDatabase.delete_note: rowcount > 0
db_delete_note_ret(user_id, title) == note_rows(user_id, title) # {}

\* NoteDatabase.delete_note: the DELETE.  Foreign keys are not enforced on
\* this connection, so no row of note_tags, note_folders or todos follows.
db_delete_note(user_id, title) ==
    notes' = notes \ note_rows(user_id, title)

\* NoteDatabase.search_user_notes
db_search_user_notes(user_id, query) ==
    LET search_pattern == <<"%">> \o query \o <<"%">> IN
    {[id |-> n.id, title |-> n.title, content |-> n.content] :
        n \in {x \in notes : /\ x.user_id = user_id
                             /\ (like(x.title, search_pattern) \/ like(x.content, search_pattern))}}

\* a tags table whose name column is not UNIQUE: every INSERT adds a row
RECURSIVE intern_tags_no_unique(_, _)
intern_tags_no_unique(table, names) ==
    IF names = <<>> THEN table
    ELSE intern_tags_no_unique(
             table \cup {[id |-> sqlite_sequence.tags + Cardinality(table \ tags) + 1,
                          name |-> Head(names)]},
             Tail(names))

\* INSERT OR IGNORE INTO tags (name) VALUES (?), for each name of the list in turn
RECURSIVE intern_tags(_, _)
intern_tags(table, names) ==
    IF names = <<>> THEN table
    ELSE IF \E t \in table : t.name = Head(names)
         THEN intern_tags(table, Tail(names))
         ELSE intern_tags(table \cup {[id |-> sqlite_sequence.tags + Cardinality(table \ tags) + 1,
                                       name |-> Head(names)]},
                          Tail(names))

\* SELECT id FROM tags WHERE name = ?
tag_id(table, name) == (CHOOSE t \in table : t.name = name).id

\* NoteDatabase.add_note_tags: the return value (all tag names, or None as {"None"})
db_add_note_tags_found(user_id, title) == note_rows(user_id, title) # {}

\* NoteDatabase.add_note_tags: the effect on the store
db_add_note_tags(user_id, title, names) ==
    IF note_rows(user_id, title) = {}
    THEN UNCHANGED <<tags, note_tags, sqlite_sequence>>
    ELSE LET note_id == (CHOOSE n \in note_rows(user_id, title) : TRUE).id
             table == intern_tags(tags, names)
         IN /\ tags' = table
            /\ sqlite_sequence' = [sqlite_sequence EXCEPT !.tags = @ + Cardinality(table \ tags)]
            /\ note_tags' = note_tags \cup {<<note_id, tag_id(table, nm)>> : nm \in Range(names)}

\* NoteDatabase.get_user_stats
db_get_user_stats(user_id) ==
    LET mine == {n \in notes : n.user_id = user_id} IN
    [total_notes |-> Cardinality(mine),
     total_tags |-> Cardinality({t \in tags : \E n \in mine : <<n.id, t.id>> \in note_tags}),
     total_todos |-> Cardinality({t \in todos : t.user_id = user_id})]

(***************************************************************************)
(* NoteDatabaseSystem: notes.                                              *)
(***************************************************************************)
PreviewLen == 100
SearchPreviewLen == 150
Ellipsis == <<".", ".", ".">>

\* the ellipsis added from n characters on: len(content) >= n
preview_at_limit(content, n) ==
    SubSeq(content, 1, IF Len(content) < n THEN Len(content) ELSE n)
        \o (IF Len(content) >= n THEN Ellipsis ELSE <<>>)

\* content[:n] + ("..." if len(content) > n else "")
preview(content, n) ==
    SubSeq(content, 1, IF Len(content) < n THEN Len(content) ELSE n)
        \o (IF Len(content) > n THEN Ellipsis ELSE <<>>)

create_note(session_id, title, content) ==
    LET args == [title |-> title, content |-> content]
        user_id == _validate_session(session_id)
        R(ok, msg, data) == Reply("create_note", session_id, args, ok, msg, data)
    IN
    /\ UNCHANGED <<users, tags, note_tags, todos, todo_tags, folders, note_folders,
                   active_sessions, issued>>
    /\ IF user_id = NULL
       THEN NotLoggedIn("create_note", session_id, args) /\ UNCHANGED <<notes, sqlite_sequence>>
       ELSE IF strip(title) = <<>> \/ strip(content) = <<>>
       THEN R(FALSE, "Title and content are required", {})
            /\ UNCHANGED <<notes, sqlite_sequence>>
       ELSE /\ db_create_note(user_id, strip(title), strip(content))
            /\ IF db_create_note_ret(user_id, strip(title)) # NULL
               THEN R(TRUE, "Note created successfully",
                      {[note_id |-> db_create_note_ret(user_id, strip(title))]})
               ELSE R(FALSE, "Note title already exists", {})

\* NoteDatabaseSystem.get_note: the envelope it returns in the current state
get_note_result(session_id, title) ==
    LET args == [title |-> title]
        user_id == _validate_session(session_id)
        R(ok, msg, data) == Envelope("get_note", session_id, args, ok, msg, data)
    IN
    IF user_id = NULL
    THEN R(FALSE, "Not logged in", {})
    ELSE IF strip(title) = <<>>
    THEN R(FALSE, "Title is required", {})
    ELSE IF db_get_note_by_title(user_id, strip(title)) # {}
    THEN R(TRUE, NoMessage, db_get_note_by_title(user_id, strip(title)))
    ELSE R(FALSE, "Note not found", {})

get_note(session_id, title) ==
    /\ UNCHANGED <<db, active_sessions, issued>>
    /\ result' = get_note_result(session_id, title)
    /\ UNCHANGED <<calls, now>>

list_notes(session_id) ==
    LET args == [x |-> 0]
        user_id == _validate_session(session_id)
        R(ok, msg, data) == Reply("list_notes", session_id, args, ok, msg, data)
    IN
    /\ UNCHANGED <<db, active_sessions, issued>>
    /\ IF user_id = NULL
       THEN NotLoggedIn("list_notes", session_id, args)
       ELSE R(TRUE, NoMessage,
              {[id |-> n.id, title |-> n.title, tags |-> n.tags,
                preview |-> preview(n.content, PreviewLen)] : n \in db_get_user_notes(user_id)})

edit_note(session_id, title, new_content) ==
    LET args == [title |-> title, content |-> new_content]
        user_id == _validate_session(session_id)
        R(ok, msg) == Reply("edit_note", session_id, args, ok, msg, {})
    IN
    /\ UNCHANGED <<users, tags, note_tags, todos, todo_tags, folders, note_folders,
                   sqlite_sequence, active_sessions, issued>>
    /\ IF user_id = NULL
       THEN NotLoggedIn("edit_note", session_id, args) /\ UNCHANGED notes
       ELSE IF strip(title) = <<>> \/ strip(new_content) = <<>>
       THEN R(FALSE, "Title and content are required") /\ UNCHANGED notes
       ELSE /\ db_update_note_content(user_id, strip(title), strip(new_content))
            /\ IF db_update_note_content_ret(user_id, strip(title))
               THEN R(TRUE, "Note updated successfully")
               ELSE R(FALSE, "Note not found")

update_note_title(session_id, old_title, new_title) ==
    LET args == [title |-> old_title, new_title |-> new_title]
        user_id == _validate_session(session_id)
        R(ok, msg) == Reply("update_note_title", session_id, args, ok, msg, {})
    IN
    /\ UNCHANGED <<users, tags, note_tags, todos, todo_tags, folders, note_folders,
                   sqlite_sequence, active_sessions, issued>>
    /\ IF user_id = NULL
       THEN NotLoggedIn("update_note_title", session_id, args) /\ UNCHANGED notes
       ELSE IF strip(old_title) = <<>> \/ strip(new_title) = <<>>
       THEN R(FALSE, "Both titles are required") /\ UNCHANGED notes
       ELSE IF db_get_note_by_title(user_id, strip(new_title)) # {}
       THEN R(FALSE, "Original note not found") /\ UNCHANGED notes
       ELSE /\ db_update_note_title(user_id, strip(old_title), strip(new_title))
            /\ IF db_update_note_title_ret(user_id, strip(old_title), strip(new_title))
               THEN R(TRUE, "Note title updated successfully")
               ELSE R(FALSE, "Note not found")

delete_note(session_id, title) ==
    LET args == [title |-> title]
        user_id == _validate_session(session_id)
        R(ok, msg) == Reply("delete_note", session_id, args, ok, msg, {})
    IN
    /\ UNCHANGED <<users, tags, note_tags, todos, todo_tags, folders, note_folders,
                   sqlite_sequence, active_sessions, issued>>
    /\ IF user_id = NULL
       THEN NotLoggedIn("delete_note", session_id, args) /\ UNCHANGED notes
       ELSE IF strip(title) = <<>>
       THEN R(FALSE, "Title is required") /\ UNCHANGED notes
       ELSE /\ db_delete_note(user_id, strip(title))
            /\ IF db_delete_note_ret(user_id, strip(title))
               THEN R(TRUE, "Note deleted successfully")
               ELSE R(FALSE, "Note not found")

search_notes(session_id, query) ==
    LET args == [query |-> query]
        user_id == _validate_session(session_id)
        R(ok, msg, data) == Reply("search_notes", session_id, args, ok, msg, data)
    IN
    /\ UNCHANGED <<db, active_sessions, issued>>
    /\ IF user_id = NULL
       THEN NotLoggedIn("search_notes", session_id, args)
       ELSE IF strip(query) = <<>>
       THEN R(FALSE, "Search query is required", {})
       ELSE R(TRUE, NoMessage,
              {[id |-> n.id, title |-> n.title,
                preview |-> preview(n.content, SearchPreviewLen)] :
                   n \in db_search_user_notes(user_id, strip(query))})

\* [tag.strip() for tag in tags if tag.strip()]
clean_tags(tag_list) ==
    LET nonempty(t) == strip(t) # <<>>
        kept == SelectSeq(tag_list, nonempty)
    IN [i \in 1..Len(kept) |-> strip(kept[i])]

add_tags(session_id, title, tag_list) ==
    LET args == [title |-> title, tags |-> tag_list]
        user_id == _validate_session(session_id)
        R(ok, msg, data) == Reply("add_tags", session_id, args, ok, msg, data)
    IN
    /\ UNCHANGED <<users, notes, todos, todo_tags, folders, note_folders,
                   active_sessions, issued>>
    /\ IF user_id = NULL
       THEN NotLoggedIn("add_tags", session_id, args)
            /\ UNCHANGED <<tags, note_tags, sqlite_sequence>>
       ELSE IF strip(title) = <<>>
       THEN R(FALSE, "Title is required", {})
            /\ UNCHANGED <<tags, note_tags, sqlite_sequence>>
       ELSE IF tag_list = <<>> \/ clean_tags(tag_list) = <<>>
       THEN R(FALSE, "At least one valid tag is required", {})
            /\ UNCHANGED <<tags, note_tags, sqlite_sequence>>
       ELSE /\ db_add_note_tags(user_id, strip(title), clean_tags(tag_list))
            /\ IF db_add_note_tags_found(user_id, strip(title))
               THEN LET note_id == (CHOOSE n \in note_rows(user_id, strip(title)) : TRUE).id IN
                    \* the SELECT that follows the inserts, on the same connection
                    R(TRUE, NoMessage, {[tags |-> {t.name : t \in {x \in tags' :
                                                <<note_id, x.id>> \in note_tags'}}]})
               ELSE R(FALSE, "Note not found", {})

get_stats(session_id) ==
    LET args == [x |-> 0]
        user_id == _validate_session(session_id)
        R(ok, msg, data) == Reply("get_stats", session_id, args, ok, msg, data)
    IN
    /\ UNCHANGED <<db, active_sessions, issued>>
    /\ IF user_id = NULL
       THEN NotLoggedIn("get_stats", session_id, args)
       ELSE R(TRUE, NoMessage, {db_get_user_stats(user_id)})

(***************************************************************************)
(* NoteDatabase: todos.                                                    *)
(***************************************************************************)
Priorities == {"low", "normal", "high"}

\* the SELECT of the note id without its user_id condition
create_todo_note_id_any_user(user_id, note_title) ==
    IF note_title # <<>> /\ \E n \in notes : n.title = note_title
    THEN (CHOOSE n \in notes : n.title = note_title).id
    ELSE NULL

\* NoteDatabase.create_todo: the note id the title resolves to, or None
create_todo_note_id(user_id, note_title) ==
    IF note_title # <<>> /\ note_rows(user_id, note_title) # {}
    THEN (CHOOSE n \in note_rows(user_id, note_title) : TRUE).id
    ELSE NULL

\* NoteDatabase.create_todo: the INSERT (a new todo is not completed)
db_create_todo(user_id, title, priority, note_title) ==
    /\ todos' = todos \cup {[id |-> next_rowid("todos"), user_id |-> user_id,
                             title |-> title, priority |-> priority, completed |-> FALSE,
                             note_id |-> create_todo_note_id(user_id, note_title)]}

\* SELECT t.name FROM tags t JOIN todo_tags tt ON t.id = tt.tag_id WHERE tt.todo_id = ?
todo_tag_names(todo_id) == {t.name : t \in {x \in tags : <<todo_id, x.id>> \in todo_tags}}

\* LEFT JOIN notes n ON t.note_id = n.id: n.title, or NULL as <<>>
joined_note_title(todo) ==
    IF \E n \in notes : n.id = todo.note_id
    THEN (CHOOSE n \in notes : n.id = todo.note_id).title
    ELSE <<>>

\* get_user_todos with its conditions joined by OR instead of AND
db_get_user_todos_any_filter(user_id, status, tag, priority, linked_to_note) ==
    {[id |-> t.id, title |-> t.title, priority |-> t.priority, completed |-> t.completed,
      note_title |-> joined_note_title(t), tags |-> todo_tag_names(t.id)] :
        t \in {x \in todos :
                 /\ x.user_id = user_id
                 /\ \/ status \notin {"open", "done"} /\ priority = "" /\ linked_to_note = <<>>
                       /\ tag = <<>>
                    \/ status = "open" /\ ~x.completed
                    \/ status = "done" /\ x.completed
                    \/ priority # "" /\ x.priority = priority
                    \/ linked_to_note # <<>>
                       /\ \E n \in notes : n.id = x.note_id /\ n.title = linked_to_note
                    \/ tag # <<>> /\ tag \in todo_tag_names(x.id)}}

\* NoteDatabase.get_user_todos; an absent filter is "" (status, priority) or <<>> (tag, note)
db_get_user_todos(user_id, status, tag, priority, linked_to_note) ==
    {[id |-> t.id, title |-> t.title, priority |-> t.priority, completed |-> t.completed,
      note_title |-> joined_note_title(t), tags |-> todo_tag_names(t.id)] :
        t \in {x \in todos :
                 /\ x.user_id = user_id
                 /\ (status = "open" => ~x.completed)
                 /\ (status = "done" => x.completed)
                 /\ (priority # "" => x.priority = priority)
                 /\ (linked_to_note # <<>> =>
                        \E n \in notes : n.id = x.note_id /\ n.title = linked_to_note)
                 /\ (tag # <<>> => tag \in todo_tag_names(x.id))}}

\* the SELECT without its user_id condition
todo_rows_any_user(user_id, todo_id) == {t \in todos : t.id = todo_id}

\* SELECT completed FROM todos WHERE id = ? AND user_id = ?
todo_rows(user_id, todo_id) == {t \in todos : t.id = todo_id /\ t.user_id = user_id}

\* NoteDatabase.toggle_todo: the return value
db_toggle_todo_ret(user_id, todo_id) == todo_rows(user_id, todo_id) # {}

\* NoteDatabase.toggle_todo: the UPDATE
db_toggle_todo(user_id, todo_id) ==
    todos' = {IF t \in todo_rows(user_id, todo_id)
              THEN [t EXCEPT !.completed = ~t.completed] ELSE t : t \in todos}

\* NoteDatabase.delete_todo: rowcount > 0
db_delete_todo_ret(user_id, todo_id) == todo_rows(user_id, todo_id) # {}

\* NoteDatabase.delete_todo: the DELETE (no cascade: foreign keys are not enforced)
db_delete_todo(user_id, todo_id) == todos' = todos \ todo_rows(user_id, todo_id)

\* add_todo_tags over a tags table whose name column is not UNIQUE
db_add_todo_tags_fresh_rows(user_id, todo_id, names) ==
    IF ~\E t \in todos' : t.id = todo_id /\ t.user_id = user_id
    THEN UNCHANGED <<tags, todo_tags>>
    ELSE LET table == intern_tags_no_unique(tags, names) IN
         /\ tags' = table
         /\ todo_tags' = todo_tags \cup {<<todo_id, tag_id(table, nm)>> : nm \in Range(names)}

\* NoteDatabase.add_todo_tags, called by create_todo on the row it has just inserted
db_add_todo_tags(user_id, todo_id, names) ==
    IF ~\E t \in todos' : t.id = todo_id /\ t.user_id = user_id
    THEN UNCHANGED <<tags, todo_tags>>
    ELSE LET table == intern_tags(tags, names) IN
         /\ tags' = table
         /\ todo_tags' = todo_tags \cup {<<todo_id, tag_id(table, nm)>> : nm \in Range(names)}

(***************************************************************************)
(* NoteDatabaseSystem: todos.                                              *)
(***************************************************************************)
\* the priority stored exactly as the caller gave it
checked_priority_as_given(priority) == priority

\* if priority not in {"low", "normal", "high"}: priority = "normal"
checked_priority(priority) == IF priority \notin Priorities THEN "normal" ELSE priority

create_todo(session_id, title, priority, tag_list, note_title) ==
    LET args == [title |-> title, priority |-> priority, tags |-> tag_list,
                 note_title |-> note_title]
        user_id == _validate_session(session_id)
        R(ok, msg, data) == Reply("create_todo", session_id, args, ok, msg, data)
        prio == checked_priority(priority)
        todo_id == next_rowid("todos")
    IN
    /\ UNCHANGED <<users, notes, note_tags, folders, note_folders, active_sessions, issued>>
    /\ IF user_id = NULL
       THEN NotLoggedIn("create_todo", session_id, args)
            /\ UNCHANGED <<todos, tags, todo_tags, sqlite_sequence>>
       ELSE IF strip(title) = <<>>
       THEN R(FALSE, "Title is required", {})
            /\ UNCHANGED <<todos, tags, todo_tags, sqlite_sequence>>
       ELSE /\ db_create_todo(user_id, strip(title), prio,
                              IF note_title # <<>> THEN strip(note_title) ELSE <<>>)
            /\ IF tag_list # <<>> /\ clean_tags(tag_list) # <<>>
               THEN db_add_todo_tags(user_id, todo_id, clean_tags(tag_list))
               ELSE UNCHANGED <<tags, todo_tags>>
            /\ sqlite_sequence' =
                   [sqlite_sequence EXCEPT !.todos = @ + 1,
                                           !.tags = @ + Cardinality(tags' \ tags)]
            /\ R(TRUE, "Todo created", {[id |-> todo_id]})

list_todos(session_id, status, tag, priority, linked_to_note) ==
    LET args == [status |-> status, tag |-> tag, priority |-> priority,
                 note_title |-> linked_to_note]
        user_id == _validate_session(session_id)
        R(ok, msg, data) == Reply("list_todos", session_id, args, ok, msg, data)
    IN
    /\ UNCHANGED <<db, active_sessions, issued>>
    /\ IF user_id = NULL
       THEN NotLoggedIn("list_todos", session_id, args)
       ELSE R(TRUE, NoMessage, db_get_user_todos(user_id, status, tag, priority, linked_to_note))

toggle_todo(session_id, todo_id) ==
    LET args == [id |-> todo_id]
        user_id == _validate_session(session_id)
        R(ok, msg) == Reply("toggle_todo", session_id, args, ok, msg, {})
    IN
    /\ UNCHANGED <<users, notes, tags, note_tags, todo_tags, folders, note_folders,
                   sqlite_sequence, active_sessions, issued>>
    /\ IF user_id = NULL
       THEN NotLoggedIn("toggle_todo", session_id, args) /\ UNCHANGED todos
       ELSE /\ db_toggle_todo(user_id, todo_id)
            /\ IF db_toggle_todo_ret(user_id, todo_id)
               THEN R(TRUE, "Todo updated")
               ELSE R(FALSE, "Todo not found")

delete_todo(session_id, todo_id) ==
    LET args == [id |-> todo_id]
        user_id == _validate_session(session_id)
        R(ok, msg) == Reply("delete_todo", session_id, args, ok, msg, {})
    IN
    /\ UNCHANGED <<users, notes, tags, note_tags, todo_tags, folders, note_folders,
                   sqlite_sequence, active_sessions, issued>>
    /\ IF user_id = NULL
       THEN NotLoggedIn("delete_todo", session_id, args) /\ UNCHANGED todos
       ELSE /\ db_delete_todo(user_id, todo_id)
            /\ IF db_delete_todo_ret(user_id, todo_id)
               THEN R(TRUE, "Todo deleted")
               ELSE R(FALSE, "Todo not found")

(***************************************************************************)
(* NoteDatabase and NoteDatabaseSystem: folders.                           *)
(***************************************************************************)
\* the INSERT of create_folder raises sqlite3.IntegrityError:
\* UNIQUE(user_id, name, parent_id), in which SQLite holds two NULLs distinct
create_folder_conflict(user_id, name, parent_id) ==
    /\ parent_id # NULL
    /\ \E f \in folders : f.user_id = user_id /\ f.name = name /\ f.parent_id = parent_id

\* NoteDatabase.create_folder: the return value (folder id, or None)
db_create_folder_ret(user_id, name, parent_id) ==
    IF create_folder_conflict(user_id, name, parent_id) THEN NULL ELSE next_rowid("folders")

\* NoteDatabase.create_folder: the effect on the store
db_create_folder(user_id, name, parent_id) ==
    IF create_folder_conflict(user_id, name, parent_id)
    THEN UNCHANGED <<folders, sqlite_sequence>>
    ELSE /\ folders' = folders \cup {[id |-> next_rowid("folders"), user_id |-> user_id,
                                      name |-> name, parent_id |-> parent_id]}
         /\ sqlite_sequence' = [sqlite_sequence EXCEPT !.folders = @ + 1]

\* NoteDatabase.get_user_folders_tree: the user's rows, flat
db_get_user_folders_tree(user_id) ==
    {[id |-> f.id, name |-> f.name, parent_id |-> f.parent_id] :
        f \in {x \in folders : x.user_id = user_id}}

\* NoteDatabase.link_note_to_folder: the return value
db_link_note_to_folder_ret(user_id, note_title) == note_rows(user_id, note_title) # {}

\* NoteDatabase.link_note_to_folder: INSERT OR IGNORE INTO note_folders
db_link_note_to_folder(user_id, note_title, folder_id) ==
    IF note_rows(user_id, note_title) = {} THEN UNCHANGED note_folders
    ELSE note_folders' = note_folders \cup
             {<<(CHOOSE n \in note_rows(user_id, note_title) : TRUE).id, folder_id>>}

create_folder(session_id, name, parent_id) ==
    LET args == [name |-> name, id |-> parent_id]
        user_id == _validate_session(session_id)
        R(ok, msg, data) == Reply("create_folder", session_id, args, ok, msg, data)
    IN
    /\ UNCHANGED <<users, notes, tags, note_tags, todos, todo_tags, note_folders,
                   active_sessions, issued>>
    /\ IF user_id = NULL
       THEN NotLoggedIn("create_folder", session_id, args)
            /\ UNCHANGED <<folders, sqlite_sequence>>
       ELSE /\ db_create_folder(user_id, strip(name), parent_id)
            /\ IF db_create_folder_ret(user_id, strip(name), parent_id) # NULL
               THEN R(TRUE, NoMessage, {[folder_id |-> db_create_folder_ret(user_id, strip(name),
                                                                     parent_id)]})
               ELSE R(FALSE, "Folder name already exists", {})

get_user_folders(session_id) ==
    LET args == [x |-> 0]
        user_id == _validate_session(session_id)
        R(ok, msg, data) == Reply("get_user_folders", session_id, args, ok, msg, data)
    IN
    /\ UNCHANGED <<db, active_sessions, issued>>
    /\ IF user_id = NULL
       THEN NotLoggedIn("get_user_folders", session_id, args)
       ELSE R(TRUE, NoMessage, db_get_user_folders_tree(user_id))

link_note_to_folder(session_id, note_title, folder_id) ==
    LET args == [title |-> note_title, id |-> folder_id]
        user_id == _validate_session(session_id)
        R(ok, msg) == Reply("link_note_to_folder", session_id, args, ok, msg, {})
    IN
    /\ UNCHANGED <<users, notes, tags, note_tags, todos, todo_tags, folders,
                   sqlite_sequence, active_sessions, issued>>
    /\ IF user_id = NULL
       THEN NotLoggedIn("link_note_to_folder", session_id, args) /\ UNCHANGED note_folders
       ELSE /\ db_link_note_to_folder(user_id, note_title, folder_id)
            /\ IF db_link_note_to_folder_ret(user_id, note_title)
               THEN R(TRUE, "Note linked to folder")
               ELSE R(FALSE, "Note or folder not found")

(***************************************************************************)
(* Inputs.                                                                 *)
(***************************************************************************)
alice == <<"a">>
bob == <<"b">>
pw1 == <<"p", "w", "1">>
pw2 == <<"p", "w", "2">>
padded(s) == <<" ">> \o s \o <<" ">>

(***************************************************************************)
(* SpecAuth: the credential store and the session registry.                *)
(***************************************************************************)
UsernameInputs == {<<>>, <<" ">>, alice, padded(alice), bob}
PasswordInputs == {<<>>, <<" ">>, <<"p", "w">>, pw1, padded(pw1), pw2}

NextAuth ==
    \/ \E u \in UsernameInputs, p \in PasswordInputs : register_user(u, p)
    \/ \E u \in UsernameInputs, p \in PasswordInputs : login_user(u, p)
    \/ \E s \in SessionInputs : logout_user(s)

SpecAuth == Init /\ [][NextAuth]_vars

(***************************************************************************)
(* Properties of the credential store and the session registry.            *)
(***************************************************************************)
\* the password a users row was created with, read off the symbolic digest
registered_with(row) == row.password_hash.digest[2]

UniqueUsernames == \A u1, u2 \in users : u1.username = u2.username => u1 = u2

C6_RejectedRegistration ==
    (/\ result'.op = "register_user"
     /\ \E u \in users : u.username = strip(result'.args.username))
    => LET name == strip(result'.args.username)
           original == registered_with(CHOOSE u \in users : u.username = name)
           rejected == strip(result'.args.password)
       IN /\ ~result'.success
          /\ users' = users
          /\ \E u \in users' : u.username = name /\ _verify_password(original, u.password_hash)
          /\ (rejected # original =>
                 ~\E u \in users' : u.username = name /\ _verify_password(rejected, u.password_hash))

\* C6: at most one user per username in every reachable state; registering a
\* username that is already registered fails, adds no user and leaves the
\* original credentials in force: the original password still verifies, the
\* password of the rejected registration does not (unless it is the original).
C6_UsernameUniqueness == []UniqueUsernames /\ [][C6_RejectedRegistration]_vars

\* a registration of a taken username with another password has been rejected
C6_Witness ==
    /\ result.op = "register_user"
    /\ result.message = "User registration failed"
    /\ \E u \in users : /\ u.username = strip(result.args.username)
                        /\ registered_with(u) # strip(result.args.password)

\* C7: login_user succeeds, adding exactly one new session bound to the
\* (trimmed) username, if and only if a user of that username is registered and
\* the (trimmed) password is the one it was registered with; a failed login
\* returns no token and leaves the session registry unchanged.
C7_LoginIffCredentials ==
    [][result'.op = "login_user" =>
        LET name == strip(result'.args.username)
            password == strip(result'.args.password)
            registered == \E u \in users : u.username = name /\ registered_with(u) = password
            new == DOMAIN active_sessions' \ DOMAIN active_sessions
        IN /\ result'.success <=> registered
           /\ result'.success =>
                 /\ Cardinality(new) = 1
                 /\ \A t \in new : /\ active_sessions'[t] = name
                                   /\ result'.data = {[session_id |-> t]}
                 /\ \A t \in DOMAIN active_sessions :
                       t \in DOMAIN active_sessions' /\ active_sessions'[t] = active_sessions[t]
           /\ ~result'.success => result'.data = {} /\ active_sessions' = active_sessions
    ]_vars

\* a second session of a user has been opened by a login with padded credentials,
\* after a login with a wrong password was turned down
C7_Witness ==
    /\ result.op = "login_user"
    /\ result.success
    /\ result.args.password = padded(pw1)
    /\ Cardinality(DOMAIN active_sessions) = 2
    /\ Cardinality(users) = 2

\* C8: logout_user reports success exactly when the token was in the registry;
\* afterwards the token is absent and every other entry is unchanged; a logout
\* of an absent token reports failure and changes nothing.
C8_LogoutFrame ==
    [][result'.op = "logout_user" =>
        LET t == result'.session_id IN
        /\ result'.success <=> t \in DOMAIN active_sessions
        /\ DOMAIN active_sessions' = DOMAIN active_sessions \ {t}
        /\ \A o \in DOMAIN active_sessions' : active_sessions'[o] = active_sessions[o]
        /\ UNCHANGED db
    ]_vars

\* one of the two sessions of the only registered user has been logged out,
\* the other one is still in the registry
C8_Witness ==
    /\ result.op = "logout_user"
    /\ result.success
    /\ Cardinality(users) = 1
    /\ Cardinality(issued) = 2
    /\ Cardinality(DOMAIN active_sessions) = 1

T1 == <<"t">>
T2 == <<"u">>
Body1 == <<"c">>
Body2 == <<"d">>
TagX == <<"x">>

Credentials == {<<alice, pw1>>}
TitleInputs == {padded(T1), T2}
ContentInputs == {Body1, padded(Body2)}
TagListInputs == {<<TagX, <<" ">>, TagX>>}

NextNotes ==
    \/ \E c \in Credentials : register_user(c[1], c[2])
    \/ \E c \in Credentials :
          \* every user logs in once
          /\ \A t \in DOMAIN active_sessions : active_sessions[t] # c[1]
          /\ login_user(c[1], c[2])
    \/ \E s \in SessionIds, t \in TitleInputs, c \in ContentInputs :
          create_note(s, t, c) /\ sqlite_sequence'.notes <= MaxNotes
    \/ \E s \in SessionIds, t \in TitleInputs : get_note(s, t)
    \/ \E s \in SessionIds, t \in TitleInputs, c \in ContentInputs : edit_note(s, t, c)
    \/ \E s \in SessionIds, t \in TitleInputs, n \in TitleInputs : update_note_title(s, t, n)
    \/ \E s \in SessionIds, t \in TitleInputs : delete_note(s, t)
    \/ \E s \in SessionIds, t \in TitleInputs, l \in TagListInputs : add_tags(s, t, l)

SpecNotes == Init /\ [][NextNotes]_vars

UniqueTitles ==
    \A n1, n2 \in notes : (n1.user_id = n2.user_id /\ n1.title = n2.title) => n1 = n2

C3_DuplicateRejected ==
    LET user_id == _validate_session(result'.session_id)
        title == strip(result'.args.title)
    IN (/\ result'.op = "create_note"
        /\ user_id # NULL
        /\ title # <<>> /\ strip(result'.args.content) # <<>>
        /\ note_rows(user_id, title) # {})
       => /\ ~result'.success
          /\ result'.message = "Note title already exists"
          /\ result'.data = {}
          /\ notes' = notes

\* C3: in every reachable state no user owns two notes with the same title; a
\* create_note whose (user, trimmed title) is already stored fails with the
\* message "Note title already exists" and leaves the notes table, and so the
\* original note's content, as it was.
C3_NoteTitleUniqueness == []UniqueTitles /\ [][C3_DuplicateRejected]_vars

\* a duplicate create_note was refused while the stored note holds other content
C3_Witness ==
    /\ result.op = "create_note"
    /\ result.message = "Note title already exists"
    /\ \E n \in notes : /\ n.user_id = _validate_session(result.session_id)
                         /\ n.title = strip(result.args.title)
                         /\ n.content # strip(result.args.content)

\* the envelope get_note returns for the title a create_note has just stored
get_after_create == get_note_result(result.session_id, result.args.title)

\* C10 as stated: right after a successful create_note(u, T, C), get_note(u, T)
\* returns content exactly C and an empty tag list.
C10_RoundTripExact ==
    (result.op = "create_note" /\ result.success)
    => /\ get_after_create.success
       /\ get_after_create.data # {}
       /\ \A d \in get_after_create.data : d.content = result.args.content /\ d.tags = {}

\* C10, amended: right after a successful create_note(u, T, C), get_note(u, T)
\* returns the content C without its leading and trailing whitespace (C itself
\* when it has none) and an empty tag set, also when a tagged note was deleted
\* earlier and its note_tags rows are still stored.
C10_RoundTripTrimmed ==
    (result.op = "create_note" /\ result.success)
    => /\ get_after_create.success
       /\ get_after_create.data # {}
       /\ \A d \in get_after_create.data :
              /\ d.content = strip(result.args.content)
              /\ d.title = strip(result.args.title)
              /\ d.tags = {}

\* a note with padded content was created while the note_tags row of a deleted
\* note is still stored
C10_Witness ==
    /\ result.op = "create_note" /\ result.success
    /\ result.args.content # strip(result.args.content)
    /\ \E l \in note_tags : \A n \in notes : n.id # l[1]

(***************************************************************************)
(* Spec: every facade operation.  NoteDatabaseSystem is constructed over   *)
(* the notes.db an earlier run of the program left (CREATE TABLE IF NOT    *)
(* EXISTS keeps its rows): alice and bob are registered, and bob owns a    *)
(* tagged note, a tagged todo linked to it, and a folder holding the note. *)
(* The session registry of the new process is empty.                       *)
(***************************************************************************)
F1 == <<"f">>

InitPersisted ==
    /\ users = {[id |-> 1, username |-> alice, password_hash |-> _hash_password(pw1, "s1")],
                [id |-> 2, username |-> bob, password_hash |-> _hash_password(pw2, "s1")]}
    /\ notes = {[id |-> 1, user_id |-> 2, title |-> T1, content |-> Body2,
                 created_at |-> 0, modified_at |-> 0]}
    /\ tags = {[id |-> 1, name |-> TagX]}
    /\ note_tags = {<<1, 1>>}
    /\ todos = {[id |-> 1, user_id |-> 2, title |-> T1, priority |-> "high",
                 completed |-> FALSE, note_id |-> 1]}
    /\ todo_tags = {<<1, 1>>}
    /\ folders = {[id |-> 1, user_id |-> 2, name |-> F1, parent_id |-> NULL]}
    /\ note_folders = {<<1, 1>>}
    /\ sqlite_sequence = [users |-> 2, notes |-> 1, tags |-> 1, todos |-> 1, folders |-> 1]
    /\ active_sessions = [t \in {} |-> <<>>]
    /\ issued = {}
    /\ calls = <<>>
    /\ now = 0
    /\ result = [op |-> "__init__", session_id |-> EmptySession, args |-> [x |-> 0],
                 success |-> TRUE, message |-> "", data |-> {}]

Titles == {T1, T2}
\* the persisted todo, and the one a run can add
TodoIds == {1, 2}

Next ==
    \/ register_user(alice, pw2)
    \/ \E u \in {alice, bob} :
          \* one session at a time
          /\ DOMAIN active_sessions = {}
          /\ login_user(u, pw1)
          \* tokens are interchangeable: they are numbered in order of issue
          /\ \A t \in issued' : 1..t \subseteq issued'
    \/ \E s \in SessionInputs : logout_user(s)
    \/ \E s \in SessionInputs :
          \* a user who owns a note creates no second one, and none is created
          \* once a note was deleted (SpecNotes covers creation after deletion)
          /\ \A n \in notes : n.user_id # _validate_session(s)
          /\ sqlite_sequence.notes = Cardinality(notes)
          /\ create_note(s, T1, Body1)
    \/ \E s \in SessionInputs, t \in Titles : get_note(s, t)
    \/ \E s \in SessionInputs : list_notes(s)
    \/ \E s \in SessionInputs : edit_note(s, T1, Body1)
    \/ \E s \in SessionInputs, t \in Titles : update_note_title(s, t, CHOOSE n \in Titles : n # t)
    \/ \E s \in SessionInputs, t \in Titles : delete_note(s, t)
    \/ \E s \in SessionInputs : search_notes(s, T1)
    \/ \E s \in SessionInputs : add_tags(s, T1, <<TagX>>)
    \/ \E s \in SessionInputs : get_stats(s)
    \/ \E s \in SessionInputs :
          \* a user who owns a todo creates no second one, and none is created
          \* once a todo was deleted
          /\ \A t \in todos : t.user_id # _validate_session(s)
          /\ sqlite_sequence.todos = Cardinality(todos)
          /\ create_todo(s, T1, "high", <<TagX>>, T1)
    \/ \E s \in SessionInputs : list_todos(s, "", <<>>, "", <<>>)
    \/ \E s \in SessionInputs, i \in TodoIds : toggle_todo(s, i)
    \/ \E s \in SessionInputs, i \in TodoIds : delete_todo(s, i)
    \* UNIQUE(user_id, name, parent_id) refuses the second folder F1 under folder 1
    \/ \E s \in SessionInputs : create_folder(s, F1, 1)
    \/ \E s \in SessionInputs : get_user_folders(s)
    \/ \E s \in SessionInputs : link_note_to_folder(s, T1, 1)

Spec == InitPersisted /\ [][Next]_vars

\* the facade operations that start with _validate_session
AuthOps == {"create_note", "get_note", "list_notes", "edit_note", "update_note_title",
            "delete_note", "search_notes", "add_tags", "get_stats", "create_todo",
            "list_todos", "toggle_todo", "delete_todo", "create_folder",
            "get_user_folders", "link_note_to_folder"}

\* the step is a call of an authenticated operation
AuthCall == result'.op \in AuthOps

LoggedOut == issued \ DOMAIN active_sessions

C1_Step ==
    \* an active token stays bound to its user until its own successful logout
    /\ \A t \in DOMAIN active_sessions :
          \/ t \in DOMAIN active_sessions' /\ active_sessions'[t] = active_sessions[t]
          \/ result'.op = "logout_user" /\ result'.session_id = t /\ result'.success
    \* a successful logout removes the token, and a removed token never returns
    /\ (result'.op = "logout_user" /\ result'.success)
          => /\ result'.session_id \in DOMAIN active_sessions
             /\ result'.session_id \notin DOMAIN active_sessions'
    /\ \A t \in LoggedOut : t \notin DOMAIN active_sessions'
    \* a call with an active token runs as the token's user
    /\ (AuthCall /\ result'.session_id \in DOMAIN active_sessions)
          => LET user_id == db_get_user_id(active_sessions[result'.session_id]) IN
             /\ result'.message # "Not logged in"
             /\ \A n \in notes' \ notes : n.user_id = user_id
             /\ \A t \in todos' \ todos : t.user_id = user_id
             /\ \A f \in folders' \ folders : f.user_id = user_id
    \* a call with a logged-out token is rejected
    /\ (AuthCall /\ result'.session_id \in LoggedOut)
          => /\ ~result'.success
             /\ result'.message = "Not logged in"
             /\ UNCHANGED db

\* C1: a token issued by a successful login stays in the registry, bound to the
\* same user, until logout_user succeeds on it, and every authenticated
\* operation called with it meanwhile runs as that user; after its logout the
\* token never re-enters the registry, whatever logins and logouts follow, and
\* every authenticated operation called with it is rejected.
C1_SessionLifecycle ==
    [](DOMAIN active_sessions \subseteq issued) /\ [][C1_Step]_vars

\* a logged-out token is rejected while a later login's session is active
C1_Witness ==
    /\ result.op \in AuthOps
    /\ result.session_id \in LoggedOut
    /\ result.message = "Not logged in"
    /\ DOMAIN active_sessions # {}

\* C2: an authenticated operation called with a token that is not in the
\* session registry (never issued, empty, or logged out) returns success=false
\* with the message "Not logged in" and no data, and changes neither the
\* database nor the session registry.
C2_NotLoggedIn ==
    [][(AuthCall /\ result'.session_id \notin DOMAIN active_sessions)
         => /\ ~result'.success
            /\ result'.message = "Not logged in"
            /\ result'.data = {}
            /\ UNCHANGED <<db, active_sessions>>]_vars

\* a write with a logged-out token was rejected
C2_Witness ==
    /\ result.op = "create_todo"
    /\ result.session_id \in LoggedOut
    /\ ~result.success /\ result.message = "Not logged in"

\* the rows of a table that the user does not own
foreign(table, user_id) == {r \in table : r.user_id # user_id}

\* the note_tags rows of notes the user does not own
foreign_note_tags(links, table, user_id) ==
    {l \in links : \E n \in foreign(table, user_id) : n.id = l[1]}

C4_Step ==
    LET user_id == _validate_session(result'.session_id)
        own_notes == {n \in notes : n.user_id = user_id}
    IN (AuthCall /\ user_id # NULL)
       => /\ foreign(notes', user_id) = foreign(notes, user_id)
          /\ foreign(todos', user_id) = foreign(todos, user_id)
          /\ foreign(folders', user_id) = foreign(folders, user_id)
          /\ foreign_note_tags(note_tags', notes', user_id)
                = foreign_note_tags(note_tags, notes, user_id)
          /\ result'.op \in {"get_note", "list_notes", "search_notes"}
                => \A d \in result'.data :
                      \E n \in own_notes : n.id = d.id /\ n.title = d.title
          /\ result'.op = "get_note"
                => \A d \in result'.data :
                      \E n \in own_notes : n.id = d.id /\ n.content = d.content
          /\ result'.op = "list_todos"
                => \A d \in result'.data :
                      /\ \E t \in todos : t.id = d.id /\ t.user_id = user_id
                      /\ d.note_title # <<>> => \E n \in own_notes : n.title = d.note_title
          /\ result'.op = "get_user_folders"
                => \A d \in result'.data :
                      \E f \in folders : f.id = d.id /\ f.user_id = user_id

\* C4: an authenticated call made with a session of user U1 leaves every
\* note, todo, folder and note_tags row of every other user as it was, and the
\* notes, todos and folders it returns are rows U1 owns, also when another
\* user owns a note of the same title.
C4_Isolation == [][C4_Step]_vars

\* get_note returned the caller's note while another user owns a note of the
\* same title with other content
C4_Witness ==
    /\ result.op = "get_note" /\ result.success
    /\ \E d \in result.data :
          \E n \in notes : /\ n.user_id # _validate_session(result.session_id)
                            /\ n.title = d.title
                            /\ n.content # d.content

\* the operations that address a note by title, and a todo by id
ByTitleOps == {"get_note", "edit_note", "delete_note", "add_tags"}
ByIdOps == {"toggle_todo", "delete_todo"}

C5_Step ==
    LET user_id == _validate_session(result'.session_id) IN
    /\ (/\ result'.op \in ByTitleOps
        /\ user_id # NULL
        /\ strip(result'.args.title) # <<>>
        /\ result'.op = "add_tags" => clean_tags(result'.args.tags) # <<>>
        /\ result'.op = "edit_note" => strip(result'.args.content) # <<>>
        /\ ~\E n \in notes : n.user_id = user_id /\ n.title = strip(result'.args.title))
       => /\ ~result'.success
          /\ result'.message = "Note not found"
          /\ result'.data = {}
          /\ UNCHANGED db
    /\ (/\ result'.op \in ByIdOps
        /\ user_id # NULL
        /\ ~\E t \in todos : t.user_id = user_id /\ t.id = result'.args.id)
       => /\ ~result'.success
          /\ result'.message = "Todo not found"
          /\ result'.data = {}
          /\ UNCHANGED db

\* C5: get_note, edit_note, delete_note and add_tags on a title, and toggle_todo
\* and delete_todo on an id, that the caller does not own return one and the
\* same failure ("Note not found", "Todo not found", no data) whether another
\* user owns the target or nobody does, and change no stored record.
C5_OwnershipHidden == [][C5_Step]_vars

\* toggle_todo was refused for a todo that another user owns
C5_Witness ==
    /\ result.op = "toggle_todo"
    /\ result.message = "Todo not found"
    /\ \E t \in todos : /\ t.id = result.args.id
                         /\ t.user_id # _validate_session(result.session_id)
                         /\ _validate_session(result.session_id) # NULL

(***************************************************************************)
(* SpecTags: alice tags her note, starting from a notes.db that holds her  *)
(* account and one untagged note.                                          *)
(***************************************************************************)
TagY == <<"y">>

InitTags ==
    /\ users = {[id |-> 1, username |-> alice, password_hash |-> _hash_password(pw1, "s1")]}
    /\ notes = {[id |-> 1, user_id |-> 1, title |-> T1, content |-> Body1,
                 created_at |-> 0, modified_at |-> 0]}
    /\ tags = {}
    /\ note_tags = {}
    /\ todos = {}
    /\ todo_tags = {}
    /\ folders = {}
    /\ note_folders = {}
    /\ sqlite_sequence = [users |-> 1, notes |-> 1, tags |-> 0, todos |-> 0, folders |-> 0]
    /\ active_sessions = [t \in {} |-> <<>>]
    /\ issued = {}
    /\ calls = <<>>
    /\ now = 0
    /\ result = [op |-> "__init__", session_id |-> EmptySession, args |-> [x |-> 0],
                 success |-> TRUE, message |-> "", data |-> {}]

TagLists == {<<TagX>>, <<padded(TagX), TagY>>, <<<<" ">>, TagY, TagY>>, <<TagY, <<>>, TagX>>,
             <<<<" ">>, <<>>>>}

NextTags ==
    \/ /\ DOMAIN active_sessions = {}
       /\ login_user(alice, pw1)
    \/ \E s \in SessionIds : logout_user(s)
    \/ \E s \in SessionIds, t \in {T1, padded(T1)}, l \in TagLists : add_tags(s, t, l)
    \/ \E s \in SessionIds : get_note(s, T1)

SpecTags == InitTags /\ [][NextTags]_vars

\* the trimmed, non-empty names of a tag list, as a set
trimmed_names(tag_list) == {strip(tag_list[i]) : i \in 1..Len(tag_list)} \ {<<>>}

C11_Step ==
    LET user_id == _validate_session(result'.session_id)
        title == strip(result'.args.title)
        names == trimmed_names(result'.args.tags)
    IN (/\ result'.op = "add_tags"
        /\ user_id # NULL
        /\ names # {}
        /\ \E n \in notes : n.user_id = user_id /\ n.title = title)
       => LET note == CHOOSE n \in notes : n.user_id = user_id /\ n.title = title
              before == {t.name : t \in {x \in tags : <<note.id, x.id>> \in note_tags}}
              rows == {l \in note_tags' : l[1] = note.id}
              after == {t.name : t \in {x \in tags' : <<note.id, x.id>> \in note_tags'}}
          IN /\ after = before \cup names
             /\ result'.success
             /\ result'.data = {[tags |-> before \cup names]}
             \* one junction row per name: the returned list repeats no name
             /\ Cardinality(rows) = Cardinality(after)
             /\ \A l \in rows : Cardinality({t \in tags' : t.id = l[2]}) = 1
             \* a call that names only tags the note already has changes nothing
             /\ names \subseteq before => UNCHANGED db

\* C11: after add_tags(u, T, names) on an existing note the note's tag set is
\* its previous tag set united with the trimmed, non-empty names; the call
\* returns that whole set, one entry per name; names empty after trimming are
\* dropped; and a call whose names the note already carries changes nothing.
C11_TaggingIdempotent == [][C11_Step]_vars

\* a list with a blank entry and a repeated or padded name was added, and the
\* note now carries two tags
C11_Witness ==
    /\ result.op = "add_tags" /\ result.success
    /\ Len(result.args.tags) > Cardinality(trimmed_names(result.args.tags))
    /\ \E i \in 1..Len(result.args.tags) :
          result.args.tags[i] # <<>> /\ strip(result.args.tags[i]) # result.args.tags[i]
    /\ \E d \in result.data : Cardinality(d.tags) = 2
    /\ Cardinality(tags) = 2 /\ Cardinality(note_tags) = 2

(***************************************************************************)
(* SpecPreview: alice lists notes whose contents are shorter than, as long *)
(* as, and longer than the preview.                                        *)
(***************************************************************************)
\* a content of k characters, none of them whitespace
Filler(k) == [i \in 1..k |-> IF i % 3 = 1 THEN "a" ELSE IF i % 3 = 2 THEN "b" ELSE "c"]

ContentLengths == {1, 99, 100, 101, 130}

InitPreview ==
    /\ users = {[id |-> 1, username |-> alice, password_hash |-> _hash_password(pw1, "s1")]}
    /\ \E k \in ContentLengths :
          notes = {[id |-> 1, user_id |-> 1, title |-> T1, content |-> Filler(k),
                    created_at |-> 0, modified_at |-> 0]}
    /\ tags = {}
    /\ note_tags = {}
    /\ todos = {}
    /\ todo_tags = {}
    /\ folders = {}
    /\ note_folders = {}
    /\ sqlite_sequence = [users |-> 1, notes |-> 1, tags |-> 0, todos |-> 0, folders |-> 0]
    /\ active_sessions = [t \in {} |-> <<>>]
    /\ issued = {}
    /\ calls = <<>>
    /\ now = 0
    /\ result = [op |-> "__init__", session_id |-> EmptySession, args |-> [x |-> 0],
                 success |-> TRUE, message |-> "", data |-> {}]

NextPreview ==
    \/ /\ DOMAIN active_sessions = {}
       /\ login_user(alice, pw1)
    \/ \E s \in SessionIds : logout_user(s)
    \/ \E s \in SessionIds, k \in ContentLengths :
          create_note(s, T2, Filler(k)) /\ sqlite_sequence'.notes <= MaxNotes
    \/ \E s \in SessionIds, k \in ContentLengths : edit_note(s, T1, Filler(k))
    \/ \E s \in SessionIds : list_notes(s)

SpecPreview == InitPreview /\ [][NextPreview]_vars

\* C12: every entry list_notes returns has no content field; its preview is
\* the note's whole content when that has at most 100 characters, and the
\* first 100 characters followed by "..." when it has more.
C12_PreviewTruncation ==
    (result.op = "list_notes" /\ result.success)
    => /\ Cardinality(result.data) =
              Cardinality({n \in notes : n.user_id = _validate_session(result.session_id)})
       /\ \A d \in result.data :
             /\ "content" \notin DOMAIN d
             /\ \E n \in notes :
                   /\ n.id = d.id
                   /\ Len(n.content) <= 100 => d.preview = n.content
                   /\ Len(n.content) > 100 =>
                         /\ Len(d.preview) = 103
                         /\ SubSeq(d.preview, 1, 100) = SubSeq(n.content, 1, 100)
                         /\ SubSeq(d.preview, 101, 103) = <<".", ".", ".">>

\* one listing shows a note of exactly 100 characters and one of more
C12_Witness ==
    /\ result.op = "list_notes" /\ result.success
    /\ \E d1, d2 \in result.data : Len(d1.preview) = 100 /\ Len(d2.preview) = 103

(***************************************************************************)
(* SpecFolders: alice creates and lists folders, starting from a notes.db  *)
(* in which she and bob each own one root folder of the same name.         *)
(***************************************************************************)
F2 == <<"g">>
Blank == <<" ">>

InitFolders ==
    /\ users = {[id |-> 1, username |-> alice, password_hash |-> _hash_password(pw1, "s1")],
                [id |-> 2, username |-> bob, password_hash |-> _hash_password(pw2, "s1")]}
    /\ notes = {}
    /\ tags = {}
    /\ note_tags = {}
    /\ todos = {}
    /\ todo_tags = {}
    /\ folders = {[id |-> 1, user_id |-> 2, name |-> F1, parent_id |-> NULL],
                  [id |-> 2, user_id |-> 1, name |-> F1, parent_id |-> NULL]}
    /\ note_folders = {}
    /\ sqlite_sequence = [users |-> 2, notes |-> 0, tags |-> 0, todos |-> 0, folders |-> 2]
    /\ active_sessions = [t \in {} |-> <<>>]
    /\ issued = {}
    /\ calls = <<>>
    /\ now = 0
    /\ result = [op |-> "__init__", session_id |-> EmptySession, args |-> [x |-> 0],
                 success |-> TRUE, message |-> "", data |-> {}]

FolderNames == {F1, F2, Blank}
\* no parent, bob's folder, alice's folder
ParentIds == {NULL, 1, 2}

NextFolders ==
    \/ /\ DOMAIN active_sessions = {}
       /\ login_user(alice, pw1)
    \/ \E s \in SessionIds : logout_user(s)
    \/ \E s \in SessionIds, n \in FolderNames, p \in ParentIds :
          create_folder(s, n, p) /\ sqlite_sequence'.folders <= MaxFolders
    \/ \E s \in SessionIds : get_user_folders(s)

SpecFolders == InitFolders /\ [][NextFolders]_vars

UniqueSiblings ==
    \A f1, f2 \in folders :
        (f1.user_id = f2.user_id /\ f1.name = f2.name /\ f1.parent_id = f2.parent_id)
        => f1 = f2

C13_DuplicateRejected ==
    LET user_id == _validate_session(result'.session_id) IN
    (/\ result'.op = "create_folder"
     /\ user_id # NULL
     /\ \E f \in folders : /\ f.user_id = user_id
                           /\ f.name = strip(result'.args.name)
                           /\ f.parent_id = result'.args.id)
    => /\ ~result'.success
       /\ result'.message = "Folder name already exists"
       /\ folders' = folders

\* C13: in every reachable state no user has two folders of the same name
\* under the same parent, the root level ("no parent") included; create_folder
\* with a (user, name, parent) that is already stored fails with the message
\* "Folder name already exists" and adds no folder.
C13_SiblingFoldersUnique == []UniqueSiblings /\ [][C13_DuplicateRejected]_vars

\* the folders of a user
own_folders(user_id) == {f \in folders : f.user_id = user_id}

\* the folders of a user that the listing must show as roots
root_folders(user_id) ==
    {f \in own_folders(user_id) :
        f.parent_id = NULL \/ f.parent_id \notin {g.id : g \in own_folders(user_id)}}

\* the children list of a listed node (a node without the key has none)
children_of(node) == IF "children" \in DOMAIN node THEN node.children ELSE {}

\* the number of nodes in a set of listed trees
RECURSIVE forest_size(_)
forest_size(nodes) ==
    IF nodes = {} THEN 0
    ELSE LET n == CHOOSE x \in nodes : TRUE IN
         1 + forest_size(children_of(n)) + forest_size(nodes \ {n})

\* the ids of the nodes in a set of listed trees
RECURSIVE forest_ids(_)
forest_ids(nodes) ==
    {n.id : n \in nodes} \cup UNION {forest_ids(children_of(n)) : n \in nodes}

\* every child hangs under its parent, all the way down
RECURSIVE nested_under_parent(_)
nested_under_parent(nodes) ==
    \A n \in nodes : /\ \A c \in children_of(n) : c.parent_id = n.id
                     /\ nested_under_parent(children_of(n))

is_forest_of(listing, user_id) ==
    /\ forest_ids(listing) = {f.id : f \in own_folders(user_id)}
    /\ forest_size(listing) = Cardinality(own_folders(user_id))
    /\ {n.id : n \in listing} = {f.id : f \in root_folders(user_id)}
    /\ nested_under_parent(listing)

\* C14: the folder listing is a forest in which every folder of the user
\* appears exactly once, each folder sits in the children list of its parent,
\* and the roots are the folders whose parent_id is null or names a folder
\* outside the user's own set.
C14_FolderForest ==
    (result.op = "get_user_folders" /\ result.success)
    => is_forest_of(result.data, _validate_session(result.session_id))

\* NoteDatabase.list_folders_tree of src/backend: one node per row of the user,
\* with the nodes of its child rows
RECURSIVE folder_node(_)
folder_node(f) ==
    [id |-> f.id, name |-> f.name, parent_id |-> f.parent_id,
     children |-> {folder_node(c) : c \in {x \in own_folders(f.user_id) : x.parent_id = f.id}}]

\* NoteDatabase.list_folders_tree of src/backend: the roots
list_folders_tree(user_id) == {folder_node(f) : f \in root_folders(user_id)}

\* list_folders_tree builds the forest of every user's folders
ListFoldersTreeIsForest ==
    \A u \in users : is_forest_of(list_folders_tree(u.id), u.id)

(***************************************************************************)
(* Todo filters: a store that already holds todos of two users, differing  *)
(* in priority, tags, completion and linked note.                          *)
(***************************************************************************)
MaxTodos == 4

InitTodos ==
    /\ users = {[id |-> 1, username |-> alice, password_hash |-> _hash_password(pw1, "s1")],
                [id |-> 2, username |-> bob, password_hash |-> _hash_password(pw2, "s1")]}
    /\ notes = {[id |-> 1, user_id |-> 1, title |-> T1, content |-> Body1,
                 created_at |-> 0, modified_at |-> 0],
                [id |-> 2, user_id |-> 2, title |-> T1, content |-> Body2,
                 created_at |-> 0, modified_at |-> 0]}
    /\ tags = {[id |-> 1, name |-> TagX], [id |-> 2, name |-> TagY]}
    /\ note_tags = {}
    /\ todos = {[id |-> 1, user_id |-> 1, title |-> T1, priority |-> "low",
                 completed |-> FALSE, note_id |-> 1],
                [id |-> 2, user_id |-> 1, title |-> T2, priority |-> "high",
                 completed |-> TRUE, note_id |-> NULL],
                [id |-> 3, user_id |-> 2, title |-> T1, priority |-> "high",
                 completed |-> FALSE, note_id |-> 2]}
    /\ todo_tags = {<<1, 1>>, <<2, 2>>, <<3, 1>>}
    /\ folders = {}
    /\ note_folders = {}
    /\ sqlite_sequence = [users |-> 2, notes |-> 2, tags |-> 2, todos |-> 3, folders |-> 0]
    /\ active_sessions = [t \in {} |-> <<>>]
    /\ issued = {}
    /\ calls = <<>>
    /\ now = 0
    /\ result = [op |-> "__init__", session_id |-> EmptySession, args |-> [x |-> 0],
                 success |-> TRUE, message |-> "", data |-> {}]

\* the filter arguments of list_todos; "" and <<>> are None
StatusFilters == {"", "open", "done"}
TagFilters == {<<>>, TagX}
PriorityFilters == {"", "high"}
NoteFilters == {<<>>, T1}

\* priority and note_title of create_todo: a valid priority with and without a
\* linked note, and a priority outside {low, normal, high}
TodoInputs == {<<"high", <<>>>>, <<"high", T1>>, <<"urgent", <<>>>>}

NextTodos ==
    \/ /\ DOMAIN active_sessions = {}
       /\ login_user(alice, pw1)
    \/ \E s \in SessionIds : logout_user(s)
    \/ \E s \in SessionIds, i \in TodoInputs :
          create_todo(s, T2, i[1], <<TagX>>, i[2]) /\ sqlite_sequence'.todos <= MaxTodos
    \* the caller's two persisted todos
    \/ \E s \in SessionIds, i \in TodoIds : toggle_todo(s, i)
    \/ \E s \in SessionIds : delete_note(s, T1)
    \* by a caller who is logged in
    \/ \E s \in DOMAIN active_sessions, st \in StatusFilters, g \in TagFilters,
          p \in PriorityFilters, n \in NoteFilters : list_todos(s, st, g, p, n)

SpecTodos == InitTodos /\ [][NextTodos]_vars

\* the todo row meets every filter that was supplied
meets_filters(t, args) ==
    /\ (args.status = "open" => ~t.completed)
    /\ (args.status = "done" => t.completed)
    /\ (args.tag # <<>> =>
           \E g \in tags : g.name = args.tag /\ <<t.id, g.id>> \in todo_tags)
    /\ (args.priority # "" => t.priority = args.priority)
    /\ (args.note_title # <<>> =>
           \E n \in notes : n.id = t.note_id /\ n.title = args.note_title)

no_filter(args) ==
    args.status = "" /\ args.tag = <<>> /\ args.priority = "" /\ args.note_title = <<>>

\* C15: list_todos returns exactly the caller's todos that satisfy every supplied
\* filter at once (completion status, membership of the tag, priority, title of
\* the linked note); each entry shows the filtered values; with no filter the
\* listing is all of the caller's todos.
C15_TodoFilterComposition ==
    (result.op = "list_todos" /\ result.success) =>
        LET user_id == _validate_session(result.session_id)
            own == {t \in todos : t.user_id = user_id}
            listed == {e.id : e \in result.data}
        IN
        /\ listed = {t.id : t \in {x \in own : meets_filters(x, result.args)}}
        /\ Cardinality(result.data) = Cardinality(listed)
        /\ \A e \in result.data :
              /\ (result.args.status = "open" => ~e.completed)
              /\ (result.args.status = "done" => e.completed)
              /\ (result.args.tag # <<>> => result.args.tag \in e.tags)
              /\ (result.args.priority # "" => e.priority = result.args.priority)
              /\ (result.args.note_title # <<>> => e.note_title = result.args.note_title)
        /\ (no_filter(result.args) => listed = {t.id : t \in own})

\* two filters at once keep a todo that meets both and drop one that meets only one
C15_Witness ==
    /\ result.op = "list_todos" /\ result.success
    /\ result.args.priority = "high" /\ result.args.tag = TagX
    /\ result.data # {}
    /\ \E t \in todos :
          /\ t.user_id = _validate_session(result.session_id)
          /\ t.priority = "high"
          /\ t.id \notin {e.id : e \in result.data}

(***************************************************************************)
(* Search: notes whose titles and contents hold letters of both cases, and *)
(* queries that hold the LIKE wildcards.                                   *)
(***************************************************************************)
TitleAb == <<"A", "b">>

InitSearch ==
    /\ users = {[id |-> 1, username |-> alice, password_hash |-> _hash_password(pw1, "s1")],
                [id |-> 2, username |-> bob, password_hash |-> _hash_password(pw2, "s1")]}
    /\ notes = {[id |-> 1, user_id |-> 2, title |-> TitleAb, content |-> Body1,
                 created_at |-> 0, modified_at |-> 0]}
    /\ tags = {}
    /\ note_tags = {}
    /\ todos = {}
    /\ todo_tags = {}
    /\ folders = {}
    /\ note_folders = {}
    /\ sqlite_sequence = [users |-> 2, notes |-> 1, tags |-> 0, todos |-> 0, folders |-> 0]
    /\ active_sessions = [t \in {} |-> <<>>]
    /\ issued = {}
    /\ calls = <<>>
    /\ now = 0
    /\ result = [op |-> "__init__", session_id |-> EmptySession, args |-> [x |-> 0],
                 success |-> TRUE, message |-> "", data |-> {}]

Queries == {<<"a">>, <<"B">>, <<"a", "B">>, <<"b", "a">>, <<"d">>, <<"_">>, <<"%">>}

NextSearch ==
    \/ /\ DOMAIN active_sessions = {}
       /\ login_user(alice, pw1)
    \/ \E s \in SessionIds : logout_user(s)
    \/ \E s \in SessionIds, t \in {TitleAb, T1}, c \in {Body1, Body2} :
          create_note(s, t, c) /\ sqlite_sequence'.notes <= MaxNotes + 1
    \/ \E s \in SessionIds, q \in Queries : search_notes(s, q)

SpecSearch == InitSearch /\ [][NextSearch]_vars

\* query occurs in text as a substring, letters compared case-insensitively
contains_ignoring_case(text, query) ==
    \E i \in 1..(Len(text) - Len(query) + 1) :
        \A j \in 1..Len(query) : lower(text[i + j - 1]) = lower(query[j])

matching_notes(user_id, query) ==
    {n \in notes : /\ n.user_id = user_id
                   /\ \/ contains_ignoring_case(n.title, query)
                      \/ contains_ignoring_case(n.content, query)}

\* C16: search_notes returns exactly the notes of the caller whose title or
\* content contains the query as a case-insensitive substring, for every
\* non-empty query, and nothing when the caller has no notes.
C16_SearchExactSubstring ==
    (result.op = "search_notes" /\ result.success) =>
        LET user_id == _validate_session(result.session_id) IN
        /\ {e.id : e \in result.data} =
               {n.id : n \in matching_notes(user_id, result.args.query)}
        /\ ((\A n \in notes : n.user_id # user_id) => result.data = {})

\* the same statement for the queries that hold neither % nor _
SearchWithoutWildcards ==
    (/\ result.op = "search_notes"
     /\ \A i \in 1..Len(result.args.query) : result.args.query[i] \notin {"%", "_"})
    => C16_SearchExactSubstring

(***************************************************************************)
(* Deleting a note and its tag junction rows (SpecNotes).                  *)
(***************************************************************************)
NoteTagsReferToNotes == \A l \in note_tags : \E n \in notes : n.id = l[1]

C17_DeleteStep ==
    result'.op = "delete_note" =>
        IF result'.success
        THEN /\ notes' # notes
             /\ \A n \in notes \ notes' :
                   /\ n.user_id = _validate_session(result'.session_id)
                   /\ n.title = strip(result'.args.title)
                   /\ \A l \in note_tags' : l[1] # n.id
        ELSE UNCHANGED db

\* C17: after delete_note succeeds the note is gone and no note-tag junction
\* row refers to it, so every junction row always refers to an existing note;
\* a delete_note that fails changes nothing.
C17_DeleteCascades == []NoteTagsReferToNotes /\ [][C17_DeleteStep]_vars

\* the part of C17 that does not depend on the cascade: the note is gone after
\* a success, and a failure changes nothing
DeleteRemovesNote ==
    [][result'.op = "delete_note" =>
          IF result'.success
          THEN \E n \in notes \ notes' : notes' = notes \ {n}
          ELSE UNCHANGED db]_vars

(***************************************************************************)
(* create_todo and a priority outside {low, normal, high} (SpecTodos).     *)
(***************************************************************************)
\* C18 as stated: a create_todo with a priority outside {low, normal, high}
\* is reported as a failure and stores no todo.
C18_InvalidPriorityRejected ==
    [][(result'.op = "create_todo" /\ result'.args.priority \notin Priorities)
       => (~result'.success /\ todos' = todos)]_vars

C18_Step ==
    result'.op = "create_todo" =>
        LET args == result'.args
            accepted == /\ _validate_session(result'.session_id) # NULL
                        /\ strip(args.title) # <<>>
            stored == IF args.priority \in Priorities THEN args.priority ELSE "normal"
        IN
        IF accepted
        THEN /\ result'.success /\ result'.message = "Todo created"
             /\ \E t \in todos' \ todos :
                   /\ todos' = todos \cup {t}
                   /\ {t.id} = {d.id : d \in result'.data}
                   /\ t.priority = stored
                   /\ t.title = strip(args.title)
        ELSE ~result'.success /\ todos' = todos

\* C18: create_todo never rejects a priority: with a valid session and a
\* non-blank title the call succeeds with "Todo created", and the todo is
\* stored with the given priority when that is low, normal or high, and with
\* priority normal otherwise.
C18_InvalidPriorityDefaults == [][C18_Step]_vars

\* a todo created with priority "urgent" is stored as "normal"
C18_Witness ==
    /\ result.op = "create_todo" /\ result.success
    /\ result.args.priority \notin Priorities
    /\ \E t \in todos : /\ t.id \in {d.id : d \in result.data}
                        /\ t.priority = "normal"

(***************************************************************************)
(* Required string fields that are blank: every facade operation that      *)
(* takes one is called with a whitespace-only value in each such field.    *)
(***************************************************************************)
\* a whitespace-only value, and a valid one beside it
OrBlank(valid) == {Blank, valid}

NextBlank ==
    \/ /\ DOMAIN active_sessions = {}
       /\ \E u \in OrBlank(alice), p \in OrBlank(pw1) : login_user(u, p)
    \/ \E s \in SessionIds : logout_user(s)
    \/ \E u \in OrBlank(alice), p \in OrBlank(pw1) : register_user(u, p)
    \/ \E s \in SessionIds, t \in OrBlank(T2), c \in OrBlank(Body1) :
          create_note(s, t, c) /\ sqlite_sequence'.notes <= MaxNotes
    \/ \E s \in SessionIds, t \in OrBlank(T1), c \in OrBlank(Body1) :
          (t = Blank \/ c = Blank) /\ edit_note(s, t, c)
    \/ \E s \in SessionIds : get_note(s, Blank)
    \/ \E s \in SessionIds : delete_note(s, Blank)
    \/ \E s \in SessionIds : add_tags(s, Blank, <<TagX>>)
    \/ \E s \in SessionIds, t \in OrBlank(T1), n \in OrBlank(T2) :
          (t = Blank \/ n = Blank) /\ update_note_title(s, t, n)
    \/ \E s \in SessionIds : search_notes(s, Blank)
    \/ \E s \in SessionIds : create_todo(s, Blank, "high", <<>>, <<>>)
    \/ \E s \in SessionIds, n \in OrBlank(F1) :
          create_folder(s, n, NULL) /\ sqlite_sequence'.folders <= MaxFolders

SpecBlank == InitTags /\ [][NextBlank]_vars

\* the required string fields of a call, by the names its arguments carry
required_fields(op) ==
    CASE op \in {"register_user", "login_user"} -> {"username", "password"}
      [] op \in {"create_note", "edit_note"} -> {"title", "content"}
      [] op \in {"get_note", "delete_note", "add_tags", "create_todo"} -> {"title"}
      [] op = "update_note_title" -> {"title", "new_title"}
      [] op = "search_notes" -> {"query"}
      [] op = "create_folder" -> {"name"}
      [] OTHER -> {}

has_blank_field(call) == \E f \in required_fields(call.op) : strip(call.args[f]) = <<>>

NoEmptyTitleOrName ==
    /\ \A n \in notes : n.title # <<>>
    /\ \A t \in todos : t.title # <<>>
    /\ \A f \in folders : f.name # <<>>

\* C19: every facade operation answers a required string field that is empty
\* after trimming with a failure and leaves the store untouched, so no record
\* with an empty title or name is ever stored.
C19_BlankFieldsRejected ==
    /\ []NoEmptyTitleOrName
    /\ [][has_blank_field(result') => (~result'.success /\ UNCHANGED db)]_vars

\* the same statement for every operation but create_folder
BlankRejectedExceptFolder ==
    [][(result'.op # "create_folder" /\ has_blank_field(result'))
       => (~result'.success /\ UNCHANGED db)]_vars

(***************************************************************************)
(* The envelope of every facade method, and the except clause that ends    *)
(* each of them.                                                           *)
(***************************************************************************)
\* the handler that answers without a message at all
except_message_none(op) == NoMessage

\* except Exception as e: the prefix of the message each method puts before str(e)
except_message(op) ==
    CASE op = "register_user" -> "Registration failed: "
      [] op = "login_user" -> "Login failed: "
      [] op = "create_note" -> "Failed to create note: "
      [] op = "get_note" -> "Failed to get note: "
      [] op = "list_notes" -> "Failed to list notes: "
      [] op = "edit_note" -> "Failed to edit note: "
      [] op = "update_note_title" -> "Failed to update note title: "
      [] op = "delete_note" -> "Failed to delete note: "
      [] op = "search_notes" -> "Search failed: "
      [] op = "add_tags" -> "Failed to add tags: "
      [] op = "get_stats" -> "Failed to get stats: "
      [] op = "create_todo" -> "Failed to create todo: "
      [] op = "list_todos" -> "Failed to list todos: "
      [] op = "toggle_todo" -> "Failed to toggle todo: "
      [] op = "delete_todo" -> "Failed to delete todo: "
      [] op = "create_folder" -> "Failed to create folder: "
      [] op = "get_user_folders" -> "Failed to get folders: "
      [] op = "link_note_to_folder" -> "Failed to link note: "

\* the methods that call the access layer after the session check
AccessLayerOps ==
    {"register_user", "login_user", "create_note", "get_note", "list_notes", "edit_note",
     "update_note_title", "delete_note", "search_notes", "add_tags", "get_stats",
     "create_todo", "list_todos", "toggle_todo", "delete_todo", "create_folder",
     "get_user_folders", "link_note_to_folder"}

\* A call of the access layer raises (sqlite3.OperationalError, say) before it
\* commits anything: the method's except clause returns the failure envelope.
\* A fault inside _validate_session is swallowed there and answered as
\* "Not logged in", so the fault modelled here follows a valid session check.
access_layer_fault(op, session_id) ==
    /\ op \in {"register_user", "login_user"} \/ _validate_session(session_id) # NULL
    /\ UNCHANGED <<db, active_sessions, issued>>
    /\ Reply(op, session_id, [x |-> 0], FALSE, except_message(op), {})

\* the calls are made with a valid session, but for logout_user and get_stats
NextEnvelope ==
    \/ register_user(alice, pw1)
    \/ /\ DOMAIN active_sessions = {}
       /\ login_user(alice, pw1)
    \/ \E s \in SessionIds : logout_user(s)
    \/ \E s \in DOMAIN active_sessions :
          create_note(s, T2, Body1) /\ sqlite_sequence'.notes <= MaxNotes
    \/ \E s \in DOMAIN active_sessions, t \in Titles : get_note(s, t)
    \/ \E s \in DOMAIN active_sessions : list_notes(s)
    \/ \E s \in DOMAIN active_sessions : edit_note(s, T1, Body1)
    \/ \E s \in DOMAIN active_sessions : update_note_title(s, T2, T1)
    \/ \E s \in DOMAIN active_sessions : delete_note(s, T2)
    \/ \E s \in DOMAIN active_sessions : search_notes(s, T1)
    \/ \E s \in DOMAIN active_sessions : add_tags(s, T1, <<TagX>>)
    \/ \E s \in SessionIds : get_stats(s)
    \/ \E s \in DOMAIN active_sessions :
          \* one todo at a time
          /\ todos = {}
          /\ create_todo(s, T1, "high", <<>>, <<>>) /\ sqlite_sequence'.todos <= MaxTodos
    \/ \E s \in DOMAIN active_sessions : list_todos(s, "", <<>>, "", <<>>)
    \/ \E s \in DOMAIN active_sessions : toggle_todo(s, 1)
    \/ \E s \in DOMAIN active_sessions : delete_todo(s, 1)
    \/ \E s \in DOMAIN active_sessions : create_folder(s, F1, 1)
    \/ \E s \in DOMAIN active_sessions : get_user_folders(s)
    \/ \E s \in DOMAIN active_sessions : link_note_to_folder(s, T1, 1)
    \/ \E s \in SessionIds, op \in AccessLayerOps : access_layer_fault(op, s)

SpecEnvelope == InitTags /\ [][NextEnvelope]_vars

DataOps == {"get_note", "list_notes", "search_notes", "add_tags", "get_stats", "list_todos",
            "create_folder", "get_user_folders"}

RenameTitles == {strip(t) : t \in TitleInputs}

C22_Step ==
    (result'.op = "update_note_title" /\ _validate_session(result'.session_id) # NULL) =>
        \A u \in {x.id : x \in users}, old \in RenameTitles, new \in RenameTitles :
            (/\ u = _validate_session(result'.session_id)
             /\ old = strip(result'.args.title)
             /\ new = strip(result'.args.new_title)) =>
                /\ result'.success <=> (note_rows(u, old) # {} /\ note_rows(u, new) = {})
                /\ result'.success =>
                      \E n \in note_rows(u, old) :
                          /\ notes' = (notes \ {n}) \cup
                                 {[n EXCEPT !.title = new, !.modified_at = now]}
                          /\ db_get_note_by_title(u, new)' =
                                 {[id |-> n.id, title |-> new, content |-> n.content,
                                   tags |-> note_tag_names(n.id)]}
                          /\ db_get_note_by_title(u, old)' = {}
                /\ ~result'.success => UNCHANGED notes
                /\ UNCHANGED <<tags, note_tags>>

\* C22: update_note_title(u, old, new) succeeds exactly when u owns a note
\* titled old and none titled new; on success the same note (id, content,
\* tags) is reachable under new and no longer under old; on failure (old
\* missing, new taken, new equal to old) no title, content or tag changes.
C22_RenameNote == [][C22_Step]_vars

\* a tagged note was renamed
C22_Witness ==
    /\ result.op = "update_note_title" /\ result.success
    /\ \E n \in notes : /\ n.title = strip(result.args.new_title)
                        /\ note_tag_names(n.id) # {}

(***************************************************************************)
(* Editing a note under a clock that advances.                             *)
(***************************************************************************)
\* a second passes; SQLite's CURRENT_TIMESTAMP has a resolution of one second
tick ==
    /\ now < MaxTime
    /\ now' = now + 1
    /\ UNCHANGED <<db, active_sessions, issued, result, calls>>

NextClock ==
    \/ /\ DOMAIN active_sessions = {}
       /\ login_user(alice, pw1)
    \/ \E s \in SessionIds : logout_user(s)
    \/ tick
    \/ \E s \in DOMAIN active_sessions :
          create_note(s, T2, Body1) /\ sqlite_sequence'.notes <= MaxNotes
    \/ \E s \in DOMAIN active_sessions : add_tags(s, T1, <<TagX>>)
    \/ \E s \in SessionIds, t \in Titles, c \in ContentInputs : edit_note(s, t, c)

SpecClock == InitTags /\ [][NextClock]_vars

TimestampsInOrder ==
    \A n \in notes : n.created_at <= n.modified_at /\ n.modified_at <= now

C23_Step ==
    (result'.op = "edit_note" /\ ~tick) =>
        /\ UNCHANGED <<users, tags, note_tags, todos, todo_tags, folders, note_folders>>
        /\ \A u \in {NULL} \cup {x.id : x \in users}, t \in Titles :
              (u = _validate_session(result'.session_id) /\ t = strip(result'.args.title)) =>
                  /\ note_rows(u, t) = {} => ~result'.success
                  /\ IF result'.success
                     THEN \E n \in note_rows(u, t) :
                             /\ notes' = (notes \ {n}) \cup
                                    {[id |-> n.id, user_id |-> n.user_id, title |-> n.title,
                                      content |-> strip(result'.args.content),
                                      created_at |-> n.created_at, modified_at |-> now]}
                             /\ now >= n.created_at /\ now >= n.modified_at
                     ELSE UNCHANGED notes

parent_is_own(f) ==
    f.parent_id = NULL \/ \E g \in folders : g.id = f.parent_id /\ g.user_id = f.user_id

\* following parent_id from f reaches a root within the given number of steps
RECURSIVE reaches_root(_, _)
reaches_root(f, steps) ==
    \/ f.parent_id = NULL
    \/ /\ steps > 0
       /\ \E g \in folders : g.id = f.parent_id /\ reaches_root(g, steps - 1)

\* C24: in every reachable state the folders of each user form a forest:
\* every non-null parent_id refers to an existing folder of the same user and
\* following parent_id from any folder reaches a root in finitely many steps,
\* whatever parent_id values the callers of create_folder supply.
C24_FoldersFormForest ==
    \A f \in folders : parent_is_own(f) /\ reaches_root(f, Cardinality(folders))

(***************************************************************************)
(* Linking notes to folders: alice, with bob's folder 1, her own folder 2  *)
(* and an id that names no folder.                                         *)
(***************************************************************************)
LinkFolderIds == {1, 2, 3}

NextLinks ==
    \/ /\ DOMAIN active_sessions = {}
       /\ login_user(alice, pw1)
    \/ \E s \in SessionIds : logout_user(s)
    \/ \E s \in DOMAIN active_sessions, t \in Titles :
          create_note(s, t, Body1) /\ sqlite_sequence'.notes <= MaxNotes
    \/ \E s \in SessionIds, t \in Titles, f \in LinkFolderIds : link_note_to_folder(s, t, f)
    \/ \E s \in DOMAIN active_sessions : get_user_folders(s)

SpecLinks == InitFolders /\ [][NextLinks]_vars

\* every stored link joins a note and a folder of one user
LinksWithinOneUser ==
    \A l \in note_folders :
        \E n \in notes, f \in folders : n.id = l[1] /\ f.id = l[2] /\ n.user_id = f.user_id

C28_Step ==
    (result'.op = "link_note_to_folder" /\ _validate_session(result'.session_id) # NULL) =>
        LET u == _validate_session(result'.session_id) IN
        /\ result'.success =>
              /\ note_rows(u, result'.args.title) # {}
              /\ \E f \in own_folders(u) : f.id = result'.args.id
        /\ ~result'.success =>
              /\ result'.message = "Note or folder not found"
              /\ UNCHANGED note_folders

\* C28: link_note_to_folder(u, title, folder_id) succeeds only when u owns a
\* note with that title and folder_id names an existing folder owned by u;
\* otherwise it reports "Note or folder not found" and adds no link, so every
\* note-folder link in every reachable state joins a note and a folder of the
\* same user.
C28_LinkWithinOwner == []LinksWithinOneUser /\ [][C28_Step]_vars

(***************************************************************************)
(* The tag vocabulary: alice and bob tag their notes and todos with the    *)
(* same names, starting from an empty tags table.                          *)
(***************************************************************************)
InitIntern ==
    /\ users = {[id |-> 1, username |-> alice, password_hash |-> _hash_password(pw1, "s1")],
                [id |-> 2, username |-> bob, password_hash |-> _hash_password(pw2, "s1")]}
    /\ notes = {[id |-> 1, user_id |-> 1, title |-> T1, content |-> Body1,
                 created_at |-> 0, modified_at |-> 0],
                [id |-> 2, user_id |-> 2, title |-> T1, content |-> Body2,
                 created_at |-> 0, modified_at |-> 0]}
    /\ tags = {}
    /\ note_tags = {}
    /\ todos = {}
    /\ todo_tags = {}
    /\ folders = {}
    /\ note_folders = {}
    /\ sqlite_sequence = [users |-> 2, notes |-> 2, tags |-> 0, todos |-> 0, folders |-> 0]
    /\ active_sessions = [t \in {} |-> <<>>]
    /\ issued = {}
    /\ calls = <<>>
    /\ now = 0
    /\ result = [op |-> "__init__", session_id |-> EmptySession, args |-> [x |-> 0],
                 success |-> TRUE, message |-> "", data |-> {}]

InternTagLists == {<<TagX>>, <<TagY, padded(TagX)>>}

NextIntern ==
    \/ /\ \A s \in DOMAIN active_sessions : active_sessions[s] # alice
       /\ login_user(alice, pw1)
    \/ /\ \A s \in DOMAIN active_sessions : active_sessions[s] # bob
       /\ login_user(bob, pw2)
    \/ \E s \in DOMAIN active_sessions : logout_user(s)
    \/ \E s \in DOMAIN active_sessions, l \in InternTagLists : add_tags(s, T1, l)
    \/ \E s \in DOMAIN active_sessions, l \in InternTagLists :
          create_todo(s, T2, "normal", l, <<>>) /\ sqlite_sequence'.todos <= MaxTodos - 2

SpecIntern == InitIntern /\ [][NextIntern]_vars

\* one row per tag name, and every junction row names a stored tag
TagsInterned ==
    /\ \A t1, t2 \in tags : t1.name = t2.name => t1 = t2
    /\ \A l \in note_tags \cup todo_tags : \E t \in tags : t.id = l[2]

\* the record a tagging call is about: the caller's note, or the new todo
C29_Step ==
    (result'.op \in {"add_tags", "create_todo"} /\ result'.success) =>
        LET u == _validate_session(result'.session_id) IN
        /\ tags \subseteq tags'
        /\ \A n \in notes : (result'.op = "add_tags" /\ n \in note_rows(u, strip(result'.args.title)))
                            \/ {t.name : t \in {x \in tags' : <<n.id, x.id>> \in note_tags'}}
                               = note_tag_names(n.id)
        /\ \A d \in todos :
              {t.name : t \in {x \in tags' : <<d.id, x.id>> \in todo_tags'}} = todo_tag_names(d.id)
        /\ result'.op = "create_todo" =>
              \A d \in todos' \ todos :
                 {t.name : t \in {x \in tags' : <<d.id, x.id>> \in todo_tags'}}
                     = trimmed_names(result'.args.tags)

\* C29: the tag vocabulary is global and interned: the tag table holds at most
\* one row per name, a name used by notes and todos of any number of users
\* maps to that single row, and adding a tag to one record never changes the
\* tag set of any other note or todo.
C29_TagsInterned == []TagsInterned /\ [][C29_Step]_vars

\* one tag row carried by a note and a todo of alice and a note of bob
C29_Witness ==
    \E t \in tags, n1, n2 \in notes, d \in todos :
        /\ n1.user_id # n2.user_id /\ d.user_id = n1.user_id
        /\ <<n1.id, t.id>> \in note_tags /\ <<n2.id, t.id>> \in note_tags
        /\ <<d.id, t.id>> \in todo_tags
        /\ Cardinality(tags) = 2

(***************************************************************************)
(* Todos linked to notes: alice creates, renames, deletes and recreates    *)
(* her note while bob owns a note of the same title.                       *)
(***************************************************************************)
InitLinkedTodos ==
    /\ users = {[id |-> 1, username |-> alice, password_hash |-> _hash_password(pw1, "s1")],
                [id |-> 2, username |-> bob, password_hash |-> _hash_password(pw2, "s1")]}
    /\ notes = {[id |-> 1, user_id |-> 2, title |-> T1, content |-> Body2,
                 created_at |-> 0, modified_at |-> 0]}
    /\ tags = {}
    /\ note_tags = {}
    /\ todos = {}
    /\ todo_tags = {}
    /\ folders = {}
    /\ note_folders = {}
    /\ sqlite_sequence = [users |-> 2, notes |-> 1, tags |-> 0, todos |-> 0, folders |-> 0]
    /\ active_sessions = [t \in {} |-> <<>>]
    /\ issued = {}
    /\ calls = <<>>
    /\ now = 0
    /\ result = [op |-> "__init__", session_id |-> EmptySession, args |-> [x |-> 0],
                 success |-> TRUE, message |-> "", data |-> {}]

NextLinkedTodos ==
    \/ /\ DOMAIN active_sessions = {}
       /\ login_user(alice, pw1)
    \/ \E s \in DOMAIN active_sessions : logout_user(s)
    \/ \E s \in DOMAIN active_sessions :
          create_note(s, T1, Body1) /\ sqlite_sequence'.notes <= MaxNotes + 1
    \/ \E s \in DOMAIN active_sessions : update_note_title(s, T1, T2)
    \/ \E s \in DOMAIN active_sessions, t \in Titles : delete_note(s, t)
    \/ \E s \in DOMAIN active_sessions, n \in {<<>>, padded(T1)} :
          create_todo(s, T2, "normal", <<>>, n) /\ sqlite_sequence'.todos <= MaxTodos - 2
    \/ \E s \in DOMAIN active_sessions : list_todos(s, "", <<>>, "", <<>>)

SpecLinkedTodos == InitLinkedTodos /\ [][NextLinkedTodos]_vars

\* a stored link names no note of another user, and list_todos reports for
\* each todo the title the linked note has now, or none when it is gone
LinkedTitleReported ==
    /\ \A d \in todos, n \in notes : n.id = d.note_id => n.user_id = d.user_id
    /\ (result.op = "list_todos" /\ result.success) =>
          /\ {r.id : r \in result.data}
                 = {d.id : d \in {x \in todos : x.user_id = _validate_session(result.session_id)}}
          /\ \A r \in result.data : \E d \in todos :
                /\ d.id = r.id
                /\ r.note_title = IF \E n \in notes : n.id = d.note_id
                                  THEN (CHOOSE n \in notes : n.id = d.note_id).title
                                  ELSE <<>>

C25_Step ==
    LET u == _validate_session(result'.session_id) IN
    \* the link is resolved at creation, to the creator's own note or to none
    /\ (result'.op = "create_todo" /\ u # NULL) =>
          /\ result'.success
          /\ \E d \in todos' : /\ todos' \ todos = {d}
                               /\ d.user_id = u
                               /\ \A t \in Titles : t = strip(result'.args.note_title) =>
                                     \/ /\ result'.args.note_title # <<>>
                                        /\ \E n \in note_rows(u, t) : d.note_id = n.id
                                     \/ /\ result'.args.note_title = <<>> \/ note_rows(u, t) = {}
                                        /\ d.note_id = NULL
    \* and never changes afterwards
    /\ \A d \in todos, e \in todos' : d.id = e.id => e.note_id = d.note_id
    \* a note created later is never the note an existing todo is linked to
    /\ \A i \in {n.id : n \in notes'} \ {n.id : n \in notes} : \A d \in todos : d.note_id # i

\* C25: a todo's note link is resolved once, at creation, to the id of the
\* creator's own note with the given title; if there is none the todo is still
\* created, without a link and without an error; afterwards list_todos reports
\* the current title of that same note (following renames), never a different
\* note created later under the old title and never a note of another user,
\* and no note title once the linked note has been deleted.
C25_TodoNoteLink == []LinkedTitleReported /\ [][C25_Step]_vars

\* listed: a todo whose note has been renamed since, and a todo that was
\* linked to a later note of the old title, which has been deleted since
C25_Witness ==
    /\ result.op = "list_todos" /\ result.success
    /\ \E r \in result.data : r.note_title = T2
    /\ \E r \in result.data : r.note_title = <<>> /\ \E d \in todos : d.id = r.id /\ d.note_id # NULL

(***************************************************************************)
(* Concurrent callers.  Each caller runs one call; a call advances one     *)
(* SQL statement (or one registry operation) at a time, and the steps of   *)
(* different callers interleave freely.  Every database method opens its   *)
(* own connection and commits before it returns, and SQLite serialises     *)
(* the statements, so a statement is the unit of interleaving.             *)
(***************************************************************************)
Callers == 1..MaxCallers

\* the caller has not started its call
idle(c) == c \notin DOMAIN calls

\* calls with the entry of caller c set to rec
with_call(c, rec) == [x \in DOMAIN calls \cup {c} |-> IF x = c THEN rec ELSE calls[x]]

\* the call of caller c has returned
returned(c) == c \in DOMAIN calls /\ calls[c].pc = "return"

(***************************************************************************)
(* SpecRace: register_user, create_note and update_note_title racing for   *)
(* one username and for one title of alice, who owns two other notes.      *)
(***************************************************************************)
T3 == <<"v">>

InitRace ==
    /\ users = {[id |-> 1, username |-> alice, password_hash |-> _hash_password(pw1, "s1")]}
    /\ notes = {[id |-> 1, user_id |-> 1, title |-> T2, content |-> Body1,
                 created_at |-> 0, modified_at |-> 0],
                [id |-> 2, user_id |-> 1, title |-> T3, content |-> Body2,
                 created_at |-> 0, modified_at |-> 0]}
    /\ tags = {}
    /\ note_tags = {}
    /\ todos = {}
    /\ todo_tags = {}
    /\ folders = {}
    /\ note_folders = {}
    /\ sqlite_sequence = [users |-> 1, notes |-> 2, tags |-> 0, todos |-> 0, folders |-> 0]
    /\ active_sessions = [t \in {} |-> <<>>]
    /\ issued = {}
    /\ calls = <<>>
    /\ now = 0
    /\ result = [op |-> "__init__", session_id |-> EmptySession, args |-> [x |-> 0],
                 success |-> TRUE, message |-> "", data |-> {}]

\* the locals of a racing call
race_call(op, pc, user_id, username, title, old_title) ==
    [op |-> op, pc |-> pc, user_id |-> user_id, username |-> username, title |-> title,
     old_title |-> old_title, success |-> FALSE, raised |-> ""]

\* the call returns
race_return(c, success, raised) ==
    calls' = with_call(c, [calls[c] EXCEPT !.pc = "return", !.success = success,
                                          !.raised = raised])

\* register_user up to the call of db.create_user
begin_register_user(c, username) ==
    /\ idle(c)
    /\ strip(username) # <<>>
    /\ calls' = with_call(c, race_call("register_user", "INSERT", NULL, strip(username),
                                       <<>>, <<>>))
    /\ UNCHANGED <<db, active_sessions, issued, result, now>>

\* NoteDatabase.create_user: the INSERT and its commit, or IntegrityError
create_user_INSERT(c) ==
    /\ c \in DOMAIN calls /\ calls[c].op = "register_user" /\ calls[c].pc = "INSERT"
    /\ \E salt \in Salts : db_create_user(calls[c].username, pw2, salt)
    /\ race_return(c, db_create_user_ret(calls[c].username),
                   IF db_create_user_ret(calls[c].username) THEN "" ELSE "IntegrityError")
    /\ UNCHANGED <<notes, tags, note_tags, todos, todo_tags, folders, note_folders,
                   active_sessions, issued, result, now>>

\* create_note up to the call of db.create_note: the session is resolved
begin_create_note(c, session_id, title) ==
    /\ idle(c)
    /\ _validate_session(session_id) # NULL
    /\ strip(title) # <<>>
    /\ calls' = with_call(c, race_call("create_note", "INSERT", _validate_session(session_id),
                                       <<>>, strip(title), <<>>))
    /\ UNCHANGED <<db, active_sessions, issued, result, now>>

\* NoteDatabase.create_note: the INSERT and its commit, or IntegrityError
create_note_INSERT(c) ==
    /\ c \in DOMAIN calls /\ calls[c].op = "create_note" /\ calls[c].pc = "INSERT"
    /\ db_create_note(calls[c].user_id, calls[c].title, Body1)
    /\ race_return(c, db_create_note_ret(calls[c].user_id, calls[c].title) # NULL,
                   IF db_create_note_ret(calls[c].user_id, calls[c].title) # NULL
                   THEN "" ELSE "IntegrityError")
    /\ UNCHANGED <<users, tags, note_tags, todos, todo_tags, folders, note_folders,
                   active_sessions, issued, result, now>>

\* update_note_title up to the facade's call of db.get_note_by_title
begin_update_note_title(c, session_id, old_title, new_title) ==
    /\ idle(c)
    /\ _validate_session(session_id) # NULL
    /\ strip(old_title) # <<>> /\ strip(new_title) # <<>>
    /\ calls' = with_call(c, race_call("update_note_title", "get_note_by_title",
                                       _validate_session(session_id), <<>>,
                                       strip(new_title), strip(old_title)))
    /\ UNCHANGED <<db, active_sessions, issued, result, now>>

\* the facade's check: existing_note = self.db.get_note_by_title(user_id, new_title)
update_note_title_get_note_by_title(c) ==
    /\ c \in DOMAIN calls /\ calls[c].op = "update_note_title"
    /\ calls[c].pc = "get_note_by_title"
    /\ IF db_get_note_by_title(calls[c].user_id, calls[c].title) # {}
       THEN race_return(c, FALSE, "")
       ELSE calls' = with_call(c, [calls[c] EXCEPT !.pc = "SELECT"])
    /\ UNCHANGED <<db, active_sessions, issued, result, now>>

\* NoteDatabase.update_note_title: SELECT id FROM notes WHERE user_id = ? AND title = ?
update_note_title_SELECT(c) ==
    /\ c \in DOMAIN calls /\ calls[c].op = "update_note_title" /\ calls[c].pc = "SELECT"
    /\ IF note_rows(calls[c].user_id, calls[c].title) # {}
       THEN race_return(c, FALSE, "")
       ELSE calls' = with_call(c, [calls[c] EXCEPT !.pc = "UPDATE"])
    /\ UNCHANGED <<db, active_sessions, issued, result, now>>

\* a notes table without UNIQUE(user_id, title): the UPDATE never raises
update_raises_none(user_id, old_title, new_title) == FALSE

\* the UPDATE raises sqlite3.IntegrityError: it would give a row the title
\* of another row of the user, against UNIQUE(user_id, title)
update_raises(user_id, old_title, new_title) ==
    /\ note_rows(user_id, old_title) # {}
    /\ note_rows(user_id, new_title) \ note_rows(user_id, old_title) # {}

\* NoteDatabase.update_note_title: the UPDATE and its commit; an exception is
\* caught and answered with False
update_note_title_UPDATE(c) ==
    LET user_id == calls[c].user_id
        old_title == calls[c].old_title
        new_title == calls[c].title
    IN
    /\ c \in DOMAIN calls /\ calls[c].op = "update_note_title" /\ calls[c].pc = "UPDATE"
    /\ IF update_raises(user_id, old_title, new_title)
       THEN UNCHANGED notes /\ race_return(c, FALSE, "IntegrityError")
       ELSE /\ notes' = {IF n.user_id = user_id /\ n.title = old_title
                         THEN [n EXCEPT !.title = new_title, !.modified_at = CURRENT_TIMESTAMP]
                         ELSE n : n \in notes}
            /\ race_return(c, note_rows(user_id, old_title) # {}, "")
    /\ UNCHANGED <<users, tags, note_tags, todos, todo_tags, folders, note_folders,
                   sqlite_sequence, active_sessions, issued, result, now>>

NextRace ==
    \/ /\ DOMAIN active_sessions = {}
       /\ login_user(alice, pw1)
    \/ \E c \in Callers : begin_register_user(c, bob)
    \/ \E c \in Callers : create_user_INSERT(c)
    \/ \E c \in Callers, s \in DOMAIN active_sessions : begin_create_note(c, s, padded(T1))
    \/ \E c \in Callers : create_note_INSERT(c)
    \/ \E c \in Callers, s \in DOMAIN active_sessions, old \in {T2, T3} :
          begin_update_note_title(c, s, old, T1)
    \/ \E c \in Callers : update_note_title_get_note_by_title(c)
    \/ \E c \in Callers : update_note_title_SELECT(c)
    \/ \E c \in Callers : update_note_title_UPDATE(c)

SpecRace == InitRace /\ [][NextRace]_vars

\* the calls that have returned success
succeeded == {c \in DOMAIN calls : returned(c) /\ calls[c].success}

\* C21: uniqueness survives concurrency: when several callers concurrently
\* run register_user for one username, or create_note / update_note_title
\* towards one (user, title), in any interleaving of their store reads and
\* writes, at most one of them succeeds and the store never holds two users
\* with that username or two notes of that user with that title.
C21_UniquenessUnderConcurrency ==
    /\ \A u1, u2 \in users : u1.username = u2.username => u1 = u2
    /\ \A n1, n2 \in notes : (n1.user_id = n2.user_id /\ n1.title = n2.title) => n1 = n2
    /\ \A c1, c2 \in succeeded :
          (/\ calls[c1].op = "register_user" /\ calls[c2].op = "register_user"
           /\ calls[c1].username = calls[c2].username) => c1 = c2
    /\ \A c1, c2 \in succeeded :
          (/\ calls[c1].op \in {"create_note", "update_note_title"}
           /\ calls[c2].op \in {"create_note", "update_note_title"}
           /\ calls[c1].user_id = calls[c2].user_id
           /\ calls[c1].title = calls[c2].title) => c1 = c2

\* two renames of different notes passed both checks before either wrote:
\* one succeeded, the UPDATE of the other raised and it answered False
C21_Witness ==
    \E c1, c2 \in DOMAIN calls :
        /\ returned(c1) /\ returned(c2)
        /\ calls[c1].op = "update_note_title" /\ calls[c2].op = "update_note_title"
        /\ calls[c1].old_title # calls[c2].old_title
        /\ calls[c1].success
        /\ ~calls[c2].success /\ calls[c2].raised = "IntegrityError"

(***************************************************************************)
(* SpecToggle: callers toggling alice's todos concurrently.                *)
(***************************************************************************)
\* alice's open todo 1, her completed todo 2, and bob's todo 3
StoredTodos ==
    {[id |-> 1, user_id |-> 1, title |-> T1, priority |-> "low",
      completed |-> FALSE, note_id |-> NULL],
     [id |-> 2, user_id |-> 1, title |-> T2, priority |-> "high",
      completed |-> TRUE, note_id |-> NULL],
     [id |-> 3, user_id |-> 2, title |-> T1, priority |-> "high",
      completed |-> FALSE, note_id |-> NULL]}

InitToggle ==
    /\ users = {[id |-> 1, username |-> alice, password_hash |-> _hash_password(pw1, "s1")],
                [id |-> 2, username |-> bob, password_hash |-> _hash_password(pw2, "s1")]}
    /\ notes = {}
    /\ tags = {}
    /\ note_tags = {}
    /\ todos = StoredTodos
    /\ todo_tags = {}
    /\ folders = {}
    /\ note_folders = {}
    /\ sqlite_sequence = [users |-> 2, notes |-> 0, tags |-> 0, todos |-> 3, folders |-> 0]
    /\ active_sessions = [t \in {} |-> <<>>]
    /\ issued = {}
    /\ calls = <<>>
    /\ now = 0
    /\ result = [op |-> "__init__", session_id |-> EmptySession, args |-> [x |-> 0],
                 success |-> TRUE, message |-> "", data |-> {}]

\* toggle_todo up to the call of db.toggle_todo: the session is resolved
begin_toggle_todo(c, session_id, todo_id) ==
    /\ idle(c)
    /\ _validate_session(session_id) # NULL
    /\ calls' = with_call(c, [op |-> "toggle_todo", pc |-> "SELECT",
                              user_id |-> _validate_session(session_id), todo_id |-> todo_id,
                              new_status |-> FALSE, success |-> FALSE])
    /\ UNCHANGED <<db, active_sessions, issued, result, now>>

\* NoteDatabase.toggle_todo: SELECT completed ...; new_status = not bool(result[0])
toggle_todo_SELECT(c) ==
    /\ c \in DOMAIN calls /\ calls[c].op = "toggle_todo" /\ calls[c].pc = "SELECT"
    /\ IF todo_rows(calls[c].user_id, calls[c].todo_id) = {}
       THEN calls' = with_call(c, [calls[c] EXCEPT !.pc = "return", !.success = FALSE])
       ELSE calls' = with_call(c,
                [calls[c] EXCEPT
                    !.pc = "UPDATE",
                    !.new_status = ~(CHOOSE t \in todo_rows(calls[c].user_id,
                                                            calls[c].todo_id) : TRUE).completed])
    /\ UNCHANGED <<db, active_sessions, issued, result, now>>

\* NoteDatabase.toggle_todo: UPDATE todos SET completed = ? ..., rowcount > 0, commit
toggle_todo_UPDATE(c) ==
    /\ c \in DOMAIN calls /\ calls[c].op = "toggle_todo" /\ calls[c].pc = "UPDATE"
    /\ todos' = {IF t \in todo_rows(calls[c].user_id, calls[c].todo_id)
                 THEN [t EXCEPT !.completed = calls[c].new_status] ELSE t : t \in todos}
    /\ calls' = with_call(c, [calls[c] EXCEPT
                                 !.pc = "return",
                                 !.success = todo_rows(calls[c].user_id, calls[c].todo_id) # {}])
    /\ UNCHANGED <<users, notes, tags, note_tags, todo_tags, folders, note_folders,
                   sqlite_sequence, active_sessions, issued, result, now>>

NextToggle ==
    \/ /\ DOMAIN active_sessions = {}
       /\ login_user(alice, pw1)
    \/ \E c \in Callers, s \in DOMAIN active_sessions, i \in {t.id : t \in StoredTodos} :
          begin_toggle_todo(c, s, i)
    \/ \E c \in Callers : toggle_todo_SELECT(c)
    \/ \E c \in Callers : toggle_todo_UPDATE(c)

SpecToggle == InitToggle /\ [][NextToggle]_vars

\* the successful toggles of a todo, once every call that was started has returned
toggles_of(todo_id) == {c \in succeeded : calls[c].todo_id = todo_id}

\* the flag differs from its initial value exactly when the number of
\* successful toggles is odd
FlagFollowsParity ==
    (\A c \in DOMAIN calls : returned(c)) =>
        \A t \in todos : \A t0 \in StoredTodos : t0.id = t.id =>
            ((t.completed # t0.completed) <=> (Cardinality(toggles_of(t.id)) % 2 = 1))

\* a toggle that returns success has written the flag of exactly its todo
C26_Step ==
    \A c \in Callers :
        (c \in DOMAIN calls /\ ~returned(c) /\ returned(c)' /\ calls'[c].success) =>
            /\ \E t \in todo_rows(calls[c].user_id, calls[c].todo_id) :
                  \E b \in BOOLEAN : todos' = (todos \ {t}) \cup {[t EXCEPT !.completed = b]}
            /\ UNCHANGED <<users, notes, tags, note_tags, todo_tags, folders, note_folders>>

\* C26: each successful toggle_todo(u, id) inverts the completed flag of
\* exactly that todo and changes nothing else, so after k successful toggles
\* of one todo, issued sequentially or by concurrent callers in any
\* interleaving, the flag differs from its initial value exactly when k is odd.
C26_ToggleParity == []FlagFollowsParity /\ [][C26_Step]_vars

(***************************************************************************)
(* SpecCreateTodo: create_todo with tags, run beside other callers'        *)
(* list_todos and delete_todo.                                             *)
(***************************************************************************)
\* the locals of a call of this specification
todo_call(op, pc, user_id, tag_list) ==
    [op |-> op, pc |-> pc, user_id |-> user_id, tags |-> tag_list, todo_id |-> NULL,
     seen |-> {}, success |-> FALSE]

\* create_todo up to the call of db.create_todo
begin_create_todo(c, session_id, tag_list) ==
    /\ idle(c)
    /\ _validate_session(session_id) # NULL
    /\ calls' = with_call(c, todo_call("create_todo", "create_todo",
                                       _validate_session(session_id), tag_list))
    /\ UNCHANGED <<db, active_sessions, issued, result, now>>

\* todo_id = self.db.create_todo(...): the INSERT and its commit
create_todo_INSERT(c) ==
    /\ c \in DOMAIN calls /\ calls[c].op = "create_todo" /\ calls[c].pc = "create_todo"
    /\ db_create_todo(calls[c].user_id, T2, "normal", <<>>)
    /\ sqlite_sequence' = [sqlite_sequence EXCEPT !.todos = @ + 1]
    /\ calls' = with_call(c, [calls[c] EXCEPT !.pc = "add_todo_tags",
                                              !.todo_id = next_rowid("todos")])
    /\ UNCHANGED <<users, notes, tags, note_tags, todo_tags, folders, note_folders,
                   active_sessions, issued, result, now>>

\* if todo_id and tags: self.db.add_todo_tags(user_id, todo_id, clean_tags), whose
\* return value is not looked at; then return {"success": True, "id": todo_id}
create_todo_add_todo_tags(c) ==
    /\ c \in DOMAIN calls /\ calls[c].op = "create_todo" /\ calls[c].pc = "add_todo_tags"
    /\ UNCHANGED todos
    /\ IF calls[c].tags # <<>> /\ clean_tags(calls[c].tags) # <<>>
       THEN db_add_todo_tags(calls[c].user_id, calls[c].todo_id, clean_tags(calls[c].tags))
       ELSE UNCHANGED <<tags, todo_tags>>
    /\ sqlite_sequence' = [sqlite_sequence EXCEPT !.tags = @ + Cardinality(tags' \ tags)]
    /\ calls' = with_call(c, [calls[c] EXCEPT !.pc = "return", !.success = TRUE])
    /\ UNCHANGED <<users, notes, note_tags, folders, note_folders,
                   active_sessions, issued, result, now>>

\* another caller's list_todos without filters: what it is shown
call_list_todos(c, session_id) ==
    /\ idle(c)
    /\ _validate_session(session_id) # NULL
    /\ calls' = with_call(c,
           [todo_call("list_todos", "return", _validate_session(session_id), <<>>)
               EXCEPT !.success = TRUE,
                      !.seen = db_get_user_todos(_validate_session(session_id),
                                                 "", <<>>, "", <<>>)])
    /\ UNCHANGED <<db, active_sessions, issued, result, now>>

\* another caller's delete_todo
call_delete_todo(c, session_id, todo_id) ==
    /\ idle(c)
    /\ _validate_session(session_id) # NULL
    /\ db_delete_todo(_validate_session(session_id), todo_id)
    /\ calls' = with_call(c,
           [todo_call("delete_todo", "return", _validate_session(session_id), <<>>)
               EXCEPT !.todo_id = todo_id,
                      !.success = db_delete_todo_ret(_validate_session(session_id), todo_id)])
    /\ UNCHANGED <<users, notes, tags, note_tags, todo_tags, folders, note_folders,
                   sqlite_sequence, active_sessions, issued, result, now>>

NextCreateTodo ==
    \/ /\ DOMAIN active_sessions = {}
       /\ login_user(alice, pw1)
    \/ \E c \in Callers, s \in DOMAIN active_sessions, l \in InternTagLists :
          begin_create_todo(c, s, l)
    \/ \E c \in Callers : create_todo_INSERT(c)
    \/ \E c \in Callers : create_todo_add_todo_tags(c)
    \/ \E c \in Callers, s \in DOMAIN active_sessions : call_list_todos(c, s)
    \/ \E c \in Callers, s \in DOMAIN active_sessions : call_delete_todo(c, s, 1)

SpecCreateTodo == InitTags /\ [][NextCreateTodo]_vars

\* the create_todo call that inserted the todo of this id
creator_of(todo_id) == {c \in DOMAIN calls : calls[c].op = "create_todo" /\ calls[c].todo_id = todo_id}

\* no list_todos of another caller was shown a todo without the tags it was
\* created with
NoPartialTodoSeen ==
    \A c \in DOMAIN calls : calls[c].op = "list_todos" =>
        \A r \in calls[c].seen : \A k \in creator_of(r.id) :
            trimmed_names(calls[k].tags) \subseteq r.tags

\* create_todo returns success only with the tags of its todo stored
C27_Step ==
    \A c \in Callers :
        (/\ c \in DOMAIN calls /\ calls[c].op = "create_todo"
         /\ ~returned(c) /\ returned(c)' /\ calls'[c].success) =>
            \A nm \in trimmed_names(calls[c].tags) :
                \E g \in tags' : g.name = nm /\ <<calls[c].todo_id, g.id>> \in todo_tags'

\* C27: no partial writes in create_todo: a call with a non-empty tag list
\* either stores the todo together with all its (trimmed, non-empty) tags or
\* stores nothing; no state in which the todo exists without those tags is
\* visible to another caller's list_todos, and success is never reported for
\* a todo whose tags were not stored.
C27_NoPartialWrites == []NoPartialTodoSeen /\ [][C27_Step]_vars

\* success is reported only with the tags stored (the second half alone)
C27_SuccessMeansTagged == [][C27_Step]_vars

(***************************************************************************)
(* SpecRegistry: login_user, logout_user and session lookups running       *)
(* concurrently over the one active_sessions dictionary.  A dictionary     *)
(* operation (in, del, get, setitem) is atomic under the interpreter lock; *)
(* the steps of different calls interleave between them.                   *)
(***************************************************************************)
\* one login and the calls that race for its session
RegistryCallers == 1..(MaxCallers + 1)

\* the locals of a call of this specification
registry_call(op, pc, username, session_id) ==
    [op |-> op, pc |-> pc, username |-> username, session_id |-> session_id,
     live |-> session_id \in DOMAIN active_sessions, size |-> 0,
     success |-> FALSE, message |-> "", raised |-> ""]

\* login_user up to and including self.db.verify_user, for correct credentials
begin_login_user(c, username, password) ==
    /\ idle(c)
    /\ strip(username) # <<>> /\ strip(password) # <<>>
    /\ db_verify_user(strip(username), strip(password))
    /\ calls' = with_call(c, registry_call("login_user", "uuid4", strip(username), NULL))
    /\ UNCHANGED <<db, active_sessions, issued, result, now>>

\* session_id = str(uuid.uuid4())
login_user_uuid4(c) ==
    /\ c \in DOMAIN calls /\ calls[c].op = "login_user" /\ calls[c].pc = "uuid4"
    /\ \E session_id \in uuid4 :
          /\ issued' = issued \cup {session_id}
          /\ calls' = with_call(c, [calls[c] EXCEPT !.pc = "setitem",
                                                    !.session_id = session_id])
    /\ UNCHANGED <<db, active_sessions, result, now>>

\* self.active_sessions[session_id] = clean_username; return
login_user_setitem(c) ==
    /\ c \in DOMAIN calls /\ calls[c].op = "login_user" /\ calls[c].pc = "setitem"
    /\ active_sessions' =
           [t \in DOMAIN active_sessions \cup {calls[c].session_id} |->
                IF t = calls[c].session_id THEN calls[c].username ELSE active_sessions[t]]
    /\ calls' = with_call(c, [calls[c] EXCEPT !.pc = "return", !.success = TRUE,
                                              !.message = "Login successful"])
    /\ UNCHANGED <<db, issued, result, now>>

\* logout_user is called
begin_logout_user(c, session_id) ==
    /\ idle(c)
    /\ calls' = with_call(c, registry_call("logout_user", "in", <<>>, session_id))
    /\ UNCHANGED <<db, active_sessions, issued, result, now>>

\* if session_id in self.active_sessions: ... else return "Invalid session"
logout_user_in(c) ==
    /\ c \in DOMAIN calls /\ calls[c].op = "logout_user" /\ calls[c].pc = "in"
    /\ IF calls[c].session_id \in DOMAIN active_sessions
       THEN calls' = with_call(c, [calls[c] EXCEPT !.pc = "del"])
       ELSE calls' = with_call(c, [calls[c] EXCEPT !.pc = "return",
                                                   !.message = "Invalid session"])
    /\ UNCHANGED <<db, active_sessions, issued, result, now>>

\* a del that removes nothing and raises nothing when the key is gone
del_raises_none(session_id) == FALSE

\* del self.active_sessions[session_id] raises KeyError
del_raises(session_id) == session_id \notin DOMAIN active_sessions

\* del self.active_sessions[session_id]; return success.  A KeyError is
\* caught by the method's except Exception and answered "Logout failed: ..."
logout_user_del(c) ==
    /\ c \in DOMAIN calls /\ calls[c].op = "logout_user" /\ calls[c].pc = "del"
    /\ IF del_raises(calls[c].session_id)
       THEN /\ UNCHANGED active_sessions
            /\ calls' = with_call(c, [calls[c] EXCEPT !.pc = "return",
                                                      !.message = "Logout failed",
                                                      !.raised = "KeyError"])
       ELSE /\ active_sessions' = [t \in DOMAIN active_sessions \ {calls[c].session_id} |->
                                       active_sessions[t]]
            /\ calls' = with_call(c, [calls[c] EXCEPT !.pc = "return", !.success = TRUE,
                                                      !.message = "Logout successful"])
    /\ UNCHANGED <<db, issued, result, now>>

\* _get_username_from_session: self.active_sessions.get(session_id)
call_get_username_from_session(c, session_id) ==
    /\ idle(c)
    /\ calls' = with_call(c,
           [registry_call("_get_username_from_session", "return",
                          _get_username_from_session(session_id), session_id)
               EXCEPT !.success = _get_username_from_session(session_id) # <<>>])
    /\ UNCHANGED <<db, active_sessions, issued, result, now>>

\* get_session_id: the iteration over active_sessions.items() starts
begin_get_session_id(c, username) ==
    /\ idle(c)
    /\ calls' = with_call(c, [registry_call("get_session_id", "for", username, NULL)
                                 EXCEPT !.size = Cardinality(DOMAIN active_sessions)])
    /\ UNCHANGED <<db, active_sessions, issued, result, now>>

\* get_session_id: the iteration runs; a dictionary whose size changed under
\* it raises RuntimeError, otherwise a session of the user, or None, is returned
get_session_id_for(c) ==
    /\ c \in DOMAIN calls /\ calls[c].op = "get_session_id" /\ calls[c].pc = "for"
    /\ IF Cardinality(DOMAIN active_sessions) # calls[c].size
       THEN calls' = with_call(c, [calls[c] EXCEPT !.pc = "return",
                                                   !.raised = "RuntimeError"])
       ELSE \/ \E sid \in DOMAIN active_sessions :
                  /\ active_sessions[sid] = calls[c].username
                  /\ calls' = with_call(c, [calls[c] EXCEPT !.pc = "return",
                                                            !.session_id = sid,
                                                            !.success = TRUE])
            \/ /\ \A sid \in DOMAIN active_sessions : active_sessions[sid] # calls[c].username
               /\ calls' = with_call(c, [calls[c] EXCEPT !.pc = "return"])
    /\ UNCHANGED <<db, active_sessions, issued, result, now>>

NextRegistry ==
    \/ \E c \in RegistryCallers : begin_login_user(c, alice, pw1)
    \/ \E c \in RegistryCallers : begin_login_user(c, bob, pw2)
    \/ \E c \in RegistryCallers : login_user_uuid4(c)
    \/ \E c \in RegistryCallers : login_user_setitem(c)
    \/ \E c \in RegistryCallers, s \in SessionIds : begin_logout_user(c, s)
    \/ \E c \in RegistryCallers : logout_user_in(c)
    \/ \E c \in RegistryCallers : logout_user_del(c)
    \/ \E c \in RegistryCallers, s \in SessionIds : call_get_username_from_session(c, s)
    \/ \E c \in RegistryCallers : begin_get_session_id(c, alice)
    \/ \E c \in RegistryCallers : get_session_id_for(c)

SpecRegistry == InitIntern /\ [][NextRegistry]_vars

\* the logout calls for a token
logouts_of(session_id) ==
    {c \in DOMAIN calls : calls[c].op = "logout_user" /\ calls[c].session_id = session_id}

\* C30: the session registry is safe under concurrent calls: in every
\* interleaving of concurrent login_user, logout_user and session-resolving
\* calls, each token in the registry maps to the username that logged in with
\* it; concurrent logouts of one token yield exactly one success, every other
\* one a failure result (none raises); and the token is absent afterwards.
C30_RegistrySafe ==
    \* a token in the registry was stored by a login, for its username
    /\ \A t \in DOMAIN active_sessions :
          \E c \in DOMAIN calls : /\ calls[c].op = "login_user" /\ returned(c)
                                  /\ calls[c].session_id = t
                                  /\ calls[c].username = active_sessions[t]
    /\ \A c1, c2 \in DOMAIN calls :
          (/\ calls[c1].op = "login_user" /\ calls[c2].op = "login_user"
           /\ calls[c1].session_id # NULL
           /\ calls[c1].session_id = calls[c2].session_id) => c1 = c2
    \* a lookup answers the username of the login, or None
    /\ \A c \in DOMAIN calls :
          (calls[c].op = "_get_username_from_session" /\ calls[c].success) =>
              \E k \in DOMAIN calls : /\ calls[k].op = "login_user"
                                      /\ calls[k].session_id = calls[c].session_id
                                      /\ calls[k].username = calls[c].username
    /\ \A t \in SessionIds :
          \* at most one logout of a token succeeds
          /\ Cardinality(logouts_of(t) \cap succeeded) <= 1
          \* a logout that raised KeyError returned a failure result
          /\ \A c \in logouts_of(t) :
                calls[c].raised # "" => (returned(c) /\ ~calls[c].success
                                         /\ calls[c].message = "Logout failed")
          \* once the logouts of a token that was live have all returned, exactly
          \* one of them has succeeded and the token is gone
          /\ ((\E c \in logouts_of(t) : calls[c].live) /\ (\A c \in logouts_of(t) : returned(c)))
                => /\ Cardinality(logouts_of(t) \cap succeeded) = 1
                   /\ t \notin DOMAIN active_sessions

\* two logouts of a live token both passed the in test; the del of the second
\* raised KeyError and it answered with a failure
C30_Witness ==
    \E c1, c2 \in DOMAIN calls :
        /\ calls[c1].op = "logout_user" /\ calls[c2].op = "logout_user"
        /\ calls[c1].session_id = calls[c2].session_id
        /\ returned(c1) /\ calls[c1].success
        /\ returned(c2) /\ ~calls[c2].success /\ calls[c2].raised = "KeyError"
        /\ calls[c2].session_id \notin DOMAIN active_sessions

====
